---- MODULE Spec2Model ----
(***************************************************************************)
(* Model of the SQL plan reducer of spark-dataflint                        *)
(* (spark-ui/src/reducers): the DAG contraction cleanUpDAG, the per        *)
(* execution pipeline calculateSql, the store merge calculateSqlStore and  *)
(* the incremental metric merge updateSqlNodeMetrics.                      *)
(*                                                                         *)
(* The slice reducers that hold the store are modelled over the slots of   *)
(* the application state.                                                  *)
(*                                                                         *)
(* Four specifications share the module:                                  *)
(*   SpecDAG  applies cleanUpDAG, one forEach iteration per step, to every *)
(*            edge list / node order / visible subset of a small graph;    *)
(*   Spec     drives the SQL store by snapshot batches and metric pushes;  *)
(*   SpecSql  applies calculateSql, stage by stage, to one execution       *)
(*            snapshot with its plan and its engine commit;                *)
(*   SpecSlice dispatches the slice actions on the application state.      *)
(***************************************************************************)
EXTENDS Integers, Sequences, FiniteSets, TLC

VARIABLES
    dagEdges,      \* cleanUpDAG argument `edges`: sequence of <<fromId, toId>>
    dagAll,        \* cleanUpDAG argument `allNodes`: sequence of node ids
    dagVisible,    \* cleanUpDAG argument `visibleNodes`: set of node ids
    dagG,          \* the working graphlib graph `g`
    dagIdx,        \* position of the forEach over notVisibleNodes
    dagPc,         \* "idle" | "loop" | "done"
    dagResult,     \* the returned edge list, once dagPc = "done"
    store,         \* the SparkSQLStore held by the slice (state.sql)
    nextUuid,      \* the next token uuidv4() hands out
    last,          \* the last reducer call: its arguments, the store before it
    calcIn,        \* calculateSql arguments: [sql, plan, icebergCommit]
    calcPc,        \* "idle" | "start" | "typed" | "forced" | "done" | "raised"
    calcNodes,     \* typeEnrichedNodes, then onlyGraphNodes
    calcOut,       \* the returned EnrichedSparkSQL, once calcPc = "done"
    state,         \* the AppStore of the slice, one field per slot
    sliceLast      \* the last slice action dispatched and the state before it

dagVars == <<dagEdges, dagAll, dagVisible, dagG, dagIdx, dagPc, dagResult>>

sqlVars == <<store, nextUuid, last>>

calcVars == <<calcIn, calcPc, calcNodes, calcOut>>

sliceVars == <<state, sliceLast>>

vars == <<dagVars, sqlVars, calcVars, sliceVars>>

\* an optional value: None is undefined, Some(x) a defined x
None == <<>>

Some(x) == <<x>>

\* the slots of the slice before setInitial
initialState ==
    [isConnected |-> FALSE, isInitialized |-> FALSE, runMetadata |-> None,
     status |-> None, config |-> None, sql |-> None, jobs |-> None,
     stages |-> None, executors |-> None, alerts |-> None,
     executorTimeline |-> None, environmentInfo |-> None]

\* the variables of the slice stay put
SliceIdle ==
    /\ state = initialState
    /\ sliceLast = [action |-> "init", before |-> initialState]

(***************************************************************************)
(* Generic sequence helpers                                                *)
(***************************************************************************)
Range(s) == {s[i] : i \in 1..Len(s)}

SeqsUpTo(S, n) == UNION {[1..k -> S] : k \in 0..n}

Perms(S) == {p \in [1..Cardinality(S) -> S] : Range(p) = S}

MinOf(S) == CHOOSE x \in S : \A y \in S : x <= y

\* `const x = v` followed by F(x): v is evaluated once and x names its value
Bind(v, F(_)) == CHOOSE r \in {F(x) : x \in {v}} : TRUE

\* Array.prototype.find: the first element satisfying P, or undefined
Find(s, P(_)) ==
    Bind(SelectSeq(s, P),
         LAMBDA hits : IF hits = <<>> THEN None ELSE Some(Head(hits)))

\* Array.prototype.map
Map(s, F(_)) == [i \in 1..Len(s) |-> F(s[i])]

(***************************************************************************)
(* graphlib Graph, directed, not a multigraph.  Edges are kept in          *)
(* insertion order, which is the order g.edges(), g.inEdges(v) and         *)
(* g.outEdges(v) enumerate them in.                                        *)
(***************************************************************************)
EmptyGraph == [nodes |-> {}, edges |-> <<>>]

GraphHasEdge(g, v, w) == \E i \in 1..Len(g.edges) : g.edges[i] = <<v, w>>

GraphSetNode(g, v) == [g EXCEPT !.nodes = @ \cup {v}]

\* setEdge creates missing endpoints; an existing edge keeps its position
GraphSetEdge(g, v, w) ==
    IF GraphHasEdge(g, v, w)
    THEN g
    ELSE [nodes |-> g.nodes \cup {v, w}, edges |-> Append(g.edges, <<v, w>>)]

\* removeNode deletes the node with every incident edge
GraphRemoveNode(g, v) ==
    [nodes |-> g.nodes \ {v},
     edges |-> SelectSeq(g.edges, LAMBDA e : e[1] # v /\ e[2] # v)]

GraphInEdges(g, v) == SelectSeq(g.edges, LAMBDA e : e[2] = v)

GraphOutEdges(g, v) == SelectSeq(g.edges, LAMBDA e : e[1] = v)

RECURSIVE SetNodes(_, _)
SetNodes(g, ids) ==
    IF ids = <<>> THEN g ELSE SetNodes(GraphSetNode(g, Head(ids)), Tail(ids))

RECURSIVE SetEdges(_, _)
SetEdges(g, es) ==
    IF es = <<>> THEN g
    ELSE SetEdges(GraphSetEdge(g, Head(es)[1], Head(es)[2]), Tail(es))

\* generateGraph(edges, nodes): a fresh graph with every node, then every edge
generateGraph(edges, nodeIds) == SetEdges(SetNodes(EmptyGraph, nodeIds), edges)

(***************************************************************************)
(* cleanUpDAG                                                              *)
(***************************************************************************)
\* allNodes.filter(node => !visibleNodesIds.includes(node.nodeId))
notVisibleNodes(allIds, visibleIds) ==
    SelectSeq(allIds, LAMBDA id : id \notin visibleIds)

\* mutant: the new edge runs from the target back to the predecessor
RECURSIVE RewireInEdgesMutReverse(_, _, _)
RewireInEdgesMutReverse(g, inEdges, w) ==
    IF inEdges = <<>> THEN g
    ELSE RewireInEdgesMutReverse(GraphSetEdge(g, w, Head(inEdges)[1]),
                                 Tail(inEdges), w)

RECURSIVE RewireInEdges(_, _, _)
RewireInEdges(g, inEdges, w) ==
    IF inEdges = <<>> THEN g
    ELSE RewireInEdges(GraphSetEdge(g, Head(inEdges)[1], w), Tail(inEdges), w)

\* mutant: rewires to the last outgoing edge
ContractNodeMutLast(g, nodeId) ==
    IF nodeId \notin g.nodes THEN g
    ELSE LET inEdges == GraphInEdges(g, nodeId)
             targets == GraphOutEdges(g, nodeId)
         IN  IF Len(targets) = 0 THEN g
             ELSE GraphRemoveNode(
                      RewireInEdges(g, inEdges, targets[Len(targets)][2]), nodeId)

\* mutant: removes the node without rewiring its predecessors
ContractNodeMutNoRewire(g, nodeId) ==
    IF nodeId \notin g.nodes THEN g
    ELSE IF Len(GraphOutEdges(g, nodeId)) = 0 THEN g
         ELSE GraphRemoveNode(g, nodeId)

\* the body of notVisibleNodes.forEach
ContractNode(g, nodeId) ==
    IF nodeId \notin g.nodes
    THEN g                                   \* inEdges === undefined
    ELSE LET inEdges == GraphInEdges(g, nodeId)
             targets == GraphOutEdges(g, nodeId)
         IN  IF Len(targets) = 0
             THEN g
             ELSE GraphRemoveNode(
                      RewireInEdges(g, inEdges, targets[1][2]), nodeId)

RECURSIVE ContractAll(_, _)
ContractAll(g, ids) ==
    IF ids = <<>> THEN g ELSE ContractAll(ContractNode(g, Head(ids)), Tail(ids))

\* mutant: the final filter tests the source endpoint only
removeRedundentEdgesMutFromOnly(g, visibleIds) ==
    SelectSeq(g.edges, LAMBDA e : e[1] \in visibleIds)

\* g.edges() filtered to the edges with both endpoints visible
removeRedundentEdges(g, visibleIds) ==
    SelectSeq(g.edges, LAMBDA e : e[2] \in visibleIds /\ e[1] \in visibleIds)

cleanUpDAG(edges, allIds, visibleIds) ==
    removeRedundentEdges(
        ContractAll(generateGraph(edges, allIds),
                    notVisibleNodes(allIds, visibleIds)),
        visibleIds)

(***************************************************************************)
(* Execution ids.  sql.id is a decimal string, kept as its digit sequence; *)
(* calculateSqlStore compares parseInt(id), updateSqlNodeMetrics compares  *)
(* the strings themselves.                                                 *)
(***************************************************************************)
RECURSIVE parseInt(_)
parseInt(str) ==
    IF str = <<>> THEN 0
    ELSE 10 * parseInt(SubSeq(str, 1, Len(str) - 1)) + str[Len(str)]

\* JavaScript a < b on strings: code-unit lexicographic order
RECURSIVE StrLess(_, _)
StrLess(a, b) ==
    IF b = <<>> THEN FALSE
    ELSE IF a = <<>> THEN TRUE
    ELSE IF Head(a) # Head(b) THEN Head(a) < Head(b)
    ELSE StrLess(Tail(a), Tail(b))

StrGreater(a, b) == StrLess(b, a)

(***************************************************************************)
(* Node classification and plan parsing                                    *)
(***************************************************************************)
ScanNames == {"Scan parquet", "LocalTableScan", "InMemoryTableScan"}

JoinNames == {"BroadcastHashJoin", "SortMergeJoin", "ShuffleHashJoin"}

OutputNames == {"Execute InsertIntoHadoopFsRelationCommand"}

TransformationNames == {"Filter", "Exchange", "HashAggregate", "Project"}

CodegenNames == {"WholeStageCodegen (1)", "WholeStageCodegen (2)"}

\* SqlReducerUtils.calcNodeType: name -> input | output | join |
\* transformation | other
calcNodeType(nodeName) ==
    IF nodeName \in ScanNames THEN "input"
    ELSE IF nodeName \in OutputNames THEN "output"
    ELSE IF nodeName \in JoinNames THEN "join"
    ELSE IF nodeName \in TransformationNames THEN "transformation"
    ELSE "other"

\* node.nodeName.includes("WholeStageCodegen")
isCodegenName(nodeName) == nodeName \in CodegenNames

\* parseInt(nodeName.replace("WholeStageCodegen (", "").replace(")", ""))
extractCodegenId(nodeName) ==
    IF nodeName = "WholeStageCodegen (1)" THEN 1 ELSE 2

\* the names parseNodePlan selects an operator parser for, with the tag of
\* the parsed plan
ParsedPlanType(nodeName) ==
    IF nodeName = "HashAggregate" THEN Some("HashAggregate")
    ELSE IF nodeName = "Execute InsertIntoHadoopFsRelationCommand"
         THEN Some("WriteToHDFS")
    ELSE IF nodeName = "Filter" THEN Some("Filter")
    ELSE IF nodeName = "Exchange" THEN Some("Exchange")
    ELSE IF nodeName = "Project" THEN Some("Project")
    ELSE IF nodeName \in ScanNames THEN Some("FileScan")
    ELSE IF nodeName \in JoinNames THEN Some("Join")
    ELSE None

\* the plan description an operator parser fails on
BadDescription == "unparseable"

\* mutant: a parser failure is not caught; the node keeps what was parsed
parseNodePlanMutNoCatch(node, nodePlan) ==
    IF ParsedPlanType(node.nodeName) = None THEN None
    ELSE Some([type |-> ParsedPlanType(node.nodeName)[1],
               plan |-> nodePlan.planDescription])

\* parseNodePlan: the parser's exception is caught and undefined returned
parseNodePlan(node, nodePlan) ==
    IF ParsedPlanType(node.nodeName) = None THEN None
    ELSE IF nodePlan.planDescription = BadDescription THEN None
    ELSE Some([type |-> ParsedPlanType(node.nodeName)[1],
               plan |-> nodePlan.planDescription])

\* the plan description of an aggregation without aggregate functions
DistinctDescription == "distinct"

\* SqlReducerUtils.nodeEnrichedNameBuilder: the display name; an aggregation
\* parsed without aggregate functions displays as "Distinct"
nodeEnrichedNameBuilder(nodeName, parsedPlan) ==
    IF nodeName = "Execute InsertIntoHadoopFsRelationCommand"
    THEN "Write to HDFS"
    ELSE IF /\ parsedPlan # None
            /\ parsedPlan[1].type = "HashAggregate"
            /\ parsedPlan[1].plan = DistinctDescription
         THEN "Distinct"
    ELSE nodeName

(***************************************************************************)
(* Metrics.  A metric is [name, value]; the value texts are kept as the    *)
(* numbers they denote (rows, milliseconds, hundredths of a percent).      *)
(***************************************************************************)
\* the metric names m with m.name.includes("rows")
RowsNames == {"number of output rows", "join rows increase ratio",
              "join rows filtered"}

Metric(n, v) == [name |-> n, value |-> v]

\* PlanGraphUtils.getRowsFromMetrics: the first metric whose name includes
\* "rows", or null
getRowsFromMetrics(metrics) ==
    LET m == Find(metrics, LAMBDA x : x.name \in RowsNames)
    IN  IF m = None THEN None ELSE Some(m[1].value)

getMetricDuration(metricName, metrics) ==
    LET m == Find(metrics, LAMBDA x : x.name = metricName)
    IN  IF m = None THEN None ELSE Some(m[1].value)

\* x ?? 0
OrZero(opt) == IF opt = None THEN 0 ELSE opt[1]

calcCodegenDuration(metrics) == getMetricDuration("duration", metrics)

calcExchangeMetrics(nodeName, metrics) ==
    IF nodeName = "Exchange"
    THEN LET writeDuration ==
                 OrZero(getMetricDuration("shuffle write time", metrics))
             readDuration ==
                 OrZero(getMetricDuration("fetch wait time", metrics))
                 + OrZero(getMetricDuration("remote reqs duration", metrics))
                 + OrZero(getMetricDuration("remote merged reqs duration",
                                            metrics))
         IN  Some([writeDuration |-> writeDuration,
                   readDuration |-> readDuration,
                   duration |-> writeDuration + readDuration])
    ELSE None

\* the statement computing build and collect time is a separate expression
\* statement whose value is dropped
calcBroadcastExchangeDuration(nodeName, metrics) ==
    IF nodeName = "BroadcastExchange"
    THEN Some(OrZero(getMetricDuration("time to broadcast", metrics)))
    ELSE None

\* SqlReducerUtils.calcNodeMetrics: the raw metrics the node keeps
calcNodeMetrics(type, metrics) == metrics

\* FormatUtils.calculatePercentage(a, b).toFixed(2), in hundredths of a
\* percent, rounded half up
PercentageFixed2(a, b) ==
    IF b = 0 THEN 0 ELSE (20000 * a + b) \div (2 * b)

\* the node of allNodes with the given id
NodeById(allNodes, id) == Find(allNodes, LAMBDA n : n.nodeId = id)

\* PlanGraphUtils.findLastNodeWithInputRows: follow single-predecessor
\* chains upstream to the nearest node with a row count; at most `fuel`
\* hops, fuel being the number of nodes
RECURSIVE findLastNodeWithInputRowsFrom(_, _, _, _)
findLastNodeWithInputRowsFrom(nodeId, graph, allNodes, fuel) ==
    IF fuel = 0 \/ nodeId \notin graph.nodes THEN None
    ELSE LET inEdges == GraphInEdges(graph, nodeId)
         IN  IF Len(inEdges) # 1 THEN None
             ELSE LET inputNode == NodeById(allNodes, inEdges[1][1])
                  IN  IF inputNode = None THEN None
                      ELSE IF getRowsFromMetrics(inputNode[1].metrics) # None
                           THEN inputNode
                      ELSE findLastNodeWithInputRowsFrom(
                               inputNode[1].nodeId, graph, allNodes, fuel - 1)

findLastNodeWithInputRows(node, graph, allNodes) ==
    findLastNodeWithInputRowsFrom(node.nodeId, graph, allNodes, Len(allNodes))

\* mutant: the metric is computed also without input rows
NoInputRowsMutNever(inputRows) == FALSE

\* inputRows === 0: nothing upstream has a row count, or it is 0
NoInputRows(inputRows) == inputRows = 0

addFilterRatioMetric(node, updatedMetrics, graph, allNodes) ==
    IF node.nodeName \in {"Filter"} \/ node.enrichedName = "Distinct"
    THEN LET inputNode == findLastNodeWithInputRows(node, graph, allNodes)
             inputRows == IF inputNode = None THEN 0
                          ELSE OrZero(getRowsFromMetrics(inputNode[1].metrics))
             outputRowsMetric ==
                 Find(updatedMetrics, LAMBDA m : m.name \in RowsNames)
         IN  IF NoInputRows(inputRows) THEN None
             ELSE IF outputRowsMetric = None THEN None
             ELSE Some(Metric("Rows Filtered",
                              PercentageFixed2(
                                  inputRows - outputRowsMetric[1].value,
                                  inputRows)))
    ELSE None

\* the row counts of the nodes the edges come from, nulls filtered out
DirectInputRows(inEdges, allNodes) ==
    LET rows == Map(inEdges,
                    LAMBDA e : IF NodeById(allNodes, e[1]) = None THEN None
                               ELSE getRowsFromMetrics(
                                        NodeById(allNodes, e[1])[1].metrics))
    IN  SelectSeq(rows, LAMBDA r : r # None)

addCrossJoinFilterRatioMetric(node, updatedMetrics, graph, allNodes) ==
    IF node.nodeName \in {"BroadcastNestedLoopJoin", "CartesianProduct"}
    THEN IF node.nodeId \notin graph.nodes THEN <<>>
         ELSE LET inputEdges == GraphInEdges(graph, node.nodeId)
                  inputNodesRows == DirectInputRows(inputEdges, allNodes)
                  crossJoinRows == getRowsFromMetrics(updatedMetrics)
              IN  IF Len(inputEdges) # 2 \/ Len(inputNodesRows) # 2
                     \/ crossJoinRows = None
                  THEN <<>>
                  ELSE LET scanned == inputNodesRows[1][1] * inputNodesRows[2][1]
                       IN  <<Metric("Cross Join Scanned Rows", scanned),
                             Metric("Rows Filtered",
                                    10000 - PercentageFixed2(crossJoinRows[1],
                                                             scanned))>>
    ELSE <<>>

\* the upstream row counts of the nodes the edges come from, nulls filtered
UpstreamInputRows(inEdges, graph, allNodes) ==
    LET rows ==
            Map(inEdges,
                LAMBDA e :
                    IF NodeById(allNodes, e[1]) = None THEN None
                    ELSE LET nodeWithRows ==
                                 findLastNodeWithInputRows(
                                     NodeById(allNodes, e[1])[1], graph, allNodes)
                         IN  IF nodeWithRows = None THEN None
                             ELSE getRowsFromMetrics(nodeWithRows[1].metrics))
    IN  SelectSeq(rows, LAMBDA r : r # None)

Max2(a, b) == IF a >= b THEN a ELSE b

\* mutant: a ratio of exactly 1 counts as an increase
JoinRatioAboveOneMutGeq(joinOutputRows, maxInputRows) ==
    maxInputRows # 0 /\ joinOutputRows >= maxInputRows

\* joinRatio > 1, joinRatio being joinOutputRows / maxInputRows, or 0 when
\* maxInputRows is 0
JoinRatioAboveOne(joinOutputRows, maxInputRows) ==
    maxInputRows # 0 /\ joinOutputRows > maxInputRows

addJoinMetrics(node, updatedMetrics, graph, allNodes) ==
    IF node.nodeName \in JoinNames
    THEN IF node.nodeId \notin graph.nodes THEN <<>>
         ELSE LET inputEdges == GraphInEdges(graph, node.nodeId)
                  inputRows == UpstreamInputRows(inputEdges, graph, allNodes)
                  joinOutputRows == getRowsFromMetrics(updatedMetrics)
              IN  IF Len(inputEdges) # 2 \/ Len(inputRows) # 2
                     \/ joinOutputRows = None
                  THEN <<>>
                  ELSE LET maxInputRows == Max2(inputRows[1][1], inputRows[2][1])
                       IN  IF JoinRatioAboveOne(joinOutputRows[1], maxInputRows)
                           THEN \* joinRatio.toFixed(1), in tenths
                                <<Metric("join rows increase ratio",
                                         (20 * joinOutputRows[1] + maxInputRows)
                                             \div (2 * maxInputRows))>>
                           ELSE <<Metric("join rows filtered",
                                         PercentageFixed2(joinOutputRows[1],
                                                          maxInputRows))>>
    ELSE <<>>

updateNodeMetrics(node, metrics, graph, allNodes) ==
    LET updatedOriginalMetrics == calcNodeMetrics(node.type, metrics)
        filterRatio ==
            addFilterRatioMetric(node, updatedOriginalMetrics, graph, allNodes)
    IN  updatedOriginalMetrics
            \o filterRatio
            \o addCrossJoinFilterRatioMetric(node, updatedOriginalMetrics,
                                             graph, allNodes)
            \o addJoinMetrics(node, updatedOriginalMetrics, graph, allNodes)

(***************************************************************************)
(* calculateSql: the pipeline on one execution snapshot                    *)
(***************************************************************************)
NodeIds(nodes) == Map(nodes, LAMBDA n : n.nodeId)

\* typeEnrichedNodes
TypeEnrichNode(node, numNodes, plan, icebergCommit) ==
    LET type == calcNodeType(node.nodeName)
        nodePlan == IF plan = None THEN None
                    ELSE Find(plan[1].nodesPlan, LAMBDA pn : pn.id = node.nodeId)
        parsedPlan == IF nodePlan # None THEN parseNodePlan(node, nodePlan[1])
                      ELSE None
        isCodegenNode == isCodegenName(node.nodeName)
    IN  [nodeId |-> node.nodeId,
         nodeName |-> node.nodeName,
         metrics |-> node.metrics,
         stage |-> node.stage,
         rddScopeId |-> IF nodePlan = None THEN None
                        ELSE nodePlan[1].rddScopeId,
         type |-> type,
         parsedPlan |-> parsedPlan,
         enrichedName |-> nodeEnrichedNameBuilder(node.nodeName, parsedPlan),
         isCodegenNode |-> isCodegenNode,
         wholeStageCodegenId |-> IF isCodegenNode
                                 THEN Some(extractCodegenId(node.nodeName))
                                 ELSE node.wholeStageCodegenId,
         icebergCommit |-> IF type = "output" \/ numNodes = 1
                           THEN icebergCommit ELSE None]

typeEnrichedNodes(sql, plan, icebergCommit) ==
    Map(sql.nodes,
        LAMBDA node : TypeEnrichNode(node, Len(sql.nodes), plan, icebergCommit))

onlyCodeGenNodes(typed) ==
    Map(SelectSeq(typed, LAMBDA n : n.isCodegenNode),
        LAMBDA n : [codegenDuration |-> calcCodegenDuration(n.metrics)] @@ n)

\* the positions of the graph nodes that may be forced to output
aqeFilteredIdx(graphNodes) ==
    {i \in 1..Len(graphNodes) :
        /\ graphNodes[i].nodeName # "AdaptiveSparkPlan"
        /\ graphNodes[i].nodeName # "ResultQueryStage"}

HasOutput(graphNodes) == \E i \in 1..Len(graphNodes) : graphNodes[i].type = "output"

MaxOf(S) == CHOOSE x \in S : \A y \in S : x >= y

\* mutant: the forced output is the first eligible node
onlyGraphNodesMutFirst(typed) ==
    LET graphNodes == SelectSeq(typed, LAMBDA n : ~n.isCodegenNode)
    IN  IF HasOutput(graphNodes) \/ aqeFilteredIdx(graphNodes) = {}
        THEN graphNodes
        ELSE [graphNodes EXCEPT ![MinOf(aqeFilteredIdx(graphNodes))].type = "output"]

\* mutant: the codegen wrappers stay in the graph nodes
onlyGraphNodesMutKeepCodegen(typed) ==
    IF HasOutput(typed) \/ aqeFilteredIdx(typed) = {}
    THEN typed
    ELSE [typed EXCEPT ![MaxOf(aqeFilteredIdx(typed))].type = "output"]

\* onlyGraphNodes after `lastNode.type = "output"`
onlyGraphNodes(typed) ==
    LET graphNodes == SelectSeq(typed, LAMBDA n : ~n.isCodegenNode)
    IN  IF HasOutput(graphNodes) \/ aqeFilteredIdx(graphNodes) = {}
        THEN graphNodes
        ELSE [graphNodes EXCEPT ![MaxOf(aqeFilteredIdx(graphNodes))].type = "output"]

\* lastNode is undefined and `lastNode.type = ...` raises a TypeError
calculateSqlRaises(sql) ==
    LET graphNodes == SelectSeq(typeEnrichedNodes(sql, None, None),
                                LAMBDA n : ~n.isCodegenNode)
    IN  ~HasOutput(graphNodes) /\ aqeFilteredIdx(graphNodes) = {}

metricEnrichedNodes(sql, graphNodes) ==
    Bind(generateGraph(sql.edges, NodeIds(sql.nodes)), LAMBDA graph :
    Map(graphNodes,
        LAMBDA node :
            [exchangeMetrics |-> calcExchangeMetrics(node.nodeName, node.metrics),
             exchangeBroadcastDuration |->
                 calcBroadcastExchangeDuration(node.nodeName, node.metrics),
             storageInfo |-> None]
            @@ [node EXCEPT !.metrics =
                    updateNodeMetrics(node, node.metrics, graph, graphNodes)]))

ioTypes == {"input", "output", "join"}

\* mutant: the basic tier leaves out the joins
basicTypesMutNoJoin == {"input", "output", "transformation"}

basicTypes == {"input", "output", "join", "transformation"}

TierNodes(graphNodes, types) == SelectSeq(graphNodes, LAMBDA n : n.type \in types)

advancedNodes(graphNodes) == SelectSeq(graphNodes, LAMBDA n : n.type # "other")

Tier(sql, graphNodes, tierNodes) ==
    [nodesIds |-> NodeIds(tierNodes),
     edges |-> cleanUpDAG(sql.edges, NodeIds(graphNodes), Range(NodeIds(tierNodes)))]

\* the returned object, from the type enriched nodes and the graph nodes;
\* uuid is the token the first uuidv4() of the call returns
EnrichedSql(sql, typed, graphNodes, uuid) ==
    [id |-> sql.id,
     status |-> sql.status,
     duration |-> sql.duration,
     runningJobIds |-> sql.runningJobIds,
     failedJobIds |-> sql.failedJobIds,
     successJobIds |-> sql.successJobIds,
     edges |-> sql.edges,
     nodes |-> metricEnrichedNodes(sql, graphNodes),
     codegenNodes |-> onlyCodeGenNodes(typed),
     filters |->
         [io |-> Tier(sql, graphNodes, TierNodes(graphNodes, ioTypes)),
          basic |-> Tier(sql, graphNodes, TierNodes(graphNodes, basicTypes)),
          advanced |-> Tier(sql, graphNodes, advancedNodes(graphNodes))],
     uniqueId |-> uuid,
     metricUpdateId |-> uuid + 1,
     isSqlCommand |-> /\ Len(sql.runningJobIds) = 0
                      /\ Len(sql.failedJobIds) = 0
                      /\ Len(sql.successJobIds) = 0,
     originalNumOfNodes |-> Len(sql.nodes)]

calculateSql(sql, plan, icebergCommit, uuid) ==
    Bind(typeEnrichedNodes(sql, plan, icebergCommit), LAMBDA typed :
    Bind(onlyGraphNodes(typed), LAMBDA graphNodes :
        EnrichedSql(sql, typed, graphNodes, uuid)))

(***************************************************************************)
(* Statuses and lookups                                                    *)
(***************************************************************************)
Running == "RUNNING"

Completed == "COMPLETED"

Failed == "FAILED"

\* plans.find(plan => plan.executionId === id)
PlanOf(plans, id) == Find(plans, LAMBDA p : p.executionId = id)

\* icebergInfo.commitsInfo.find(commit => commit.executionId === id)
CommitOf(icebergInfo, id) ==
    Find(icebergInfo.commitsInfo, LAMBDA c : c.executionId = id)

(***************************************************************************)
(* The inputs: snapshot batches and metric pushes                          *)
(***************************************************************************)
\* the tokens uuidv4() may hand out in one behaviour
MaxUuid == 5

SqlIds == {<<9>>, <<1, 0>>}

Statuses == {Running, Completed, Failed}

RawNode(id, name, metrics) ==
    [nodeId |-> id, nodeName |-> name, metrics |-> metrics,
     stage |-> None, wholeStageCodegenId |-> None]

Rows(n) == Metric("number of output rows", n)

\* Scan -> Filter -> Exchange -> HashAggregate with one codegen wrapper
\* (no operator classifies as output)
ShapeScanAgg ==
    [nodes |-> <<RawNode(0, "Scan parquet", <<Rows(1000)>>),
                 RawNode(1, "Filter", <<Rows(400)>>),
                 RawNode(2, "Exchange", <<Metric("shuffle write time", 5),
                                          Metric("fetch wait time", 3),
                                          Rows(400)>>),
                 RawNode(3, "HashAggregate", <<Rows(10)>>),
                 RawNode(4, "WholeStageCodegen (1)", <<Metric("duration", 7)>>)>>,
     edges |-> <<<<0, 1>>, <<1, 2>>, <<2, 3>>>>]

\* the same number of nodes: a write under an AdaptiveSparkPlan root
ShapeWrite ==
    [nodes |-> <<RawNode(0, "AdaptiveSparkPlan", <<>>),
                 RawNode(1, "Execute InsertIntoHadoopFsRelationCommand", <<>>),
                 RawNode(2, "WholeStageCodegen (1)", <<Metric("duration", 4)>>),
                 RawNode(3, "Filter", <<Rows(250)>>),
                 RawNode(4, "Scan parquet", <<Rows(1000)>>)>>,
     edges |-> <<<<4, 3>>, <<3, 1>>, <<1, 0>>>>]

\* a node read from the cache of the stage it runs in
CachedNode(id, metrics, stageId) ==
    [RawNode(id, "InMemoryTableScan", metrics) EXCEPT
        !.stage = Some([type |-> "onestage", stageId |-> stageId])]

\* fewer nodes: a join listed first, then its two scans, the second one a
\* scan of the cache of stage 1, and the broadcast of the first scan
ShapeJoin ==
    [nodes |-> <<RawNode(0, "BroadcastHashJoin", <<Rows(50)>>),
                 RawNode(1, "Scan parquet", <<Rows(100)>>),
                 CachedNode(2, <<Rows(200)>>, 1),
                 RawNode(3, "BroadcastExchange",
                         <<Metric("time to broadcast", 6),
                           Metric("time to build", 2)>>)>>,
     edges |-> <<<<1, 3>>, <<3, 0>>, <<2, 0>>>>]

Volatile1 ==
    [duration |-> 10, runningJobIds |-> <<1>>, failedJobIds |-> <<>>,
     successJobIds |-> <<>>]

Volatile2 ==
    [duration |-> 20, runningJobIds |-> <<>>, failedJobIds |-> <<>>,
     successJobIds |-> <<1>>]

Snapshot(id, st, v, sh) ==
    [id |-> id, status |-> st, duration |-> v.duration,
     runningJobIds |-> v.runningJobIds, failedJobIds |-> v.failedJobIds,
     successJobIds |-> v.successJobIds, nodes |-> sh.nodes, edges |-> sh.edges]

\* an execution without nodes
ShapeEmpty == [nodes |-> <<>>, edges |-> <<>>]

\* the snapshots of execution 9: every status with every plan shape, the
\* volatile fields differing between the two shapes of equal size, and a
\* running snapshot that has no nodes yet
Snapshots9 ==
    {Snapshot(<<9>>, st, Volatile1, sh) : st \in Statuses,
                                          sh \in {ShapeScanAgg, ShapeJoin}}
    \cup {Snapshot(<<9>>, st, Volatile2, ShapeWrite) : st \in Statuses}
    \cup {Snapshot(<<9>>, Running, Volatile1, ShapeEmpty)}

\* the snapshots of execution 10: a join, running or completed
Snapshots10 ==
    {Snapshot(<<1, 0>>, Running, Volatile1, ShapeJoin),
     Snapshot(<<1, 0>>, Completed, Volatile2, ShapeJoin)}

\* a batch lists its executions in ascending numeric id, each id once
Batches ==
    {<<>>}
    \cup {<<a>> : a \in Snapshots9 \cup Snapshots10}
    \cup {<<a, b>> : a \in Snapshots9, b \in Snapshots10}

\* the plan descriptions that come with a batch: one per node
PlansFor(sqls) ==
    Map(sqls,
        LAMBDA e : [executionId |-> parseInt(e.id),
                    nodesPlan |-> Map(e.nodes,
                                      LAMBDA n : [id |-> n.nodeId,
                                                  planDescription |-> "plan",
                                                  rddScopeId |-> None])])

\* the engine-commit metadata: a commit of execution 10
IcebergInfo0 ==
    [commitsInfo |-> <<[executionId |-> parseInt(<<1, 0>>), tableName |-> "t"]>>]

\* state.stages as passed to updateSqlNodeMetrics
Stages0 == <<[stageId |-> 1, cachedStorage |-> Some(<<"rdd-1">>)]>>

\* the metric pushes: per node id, the new raw metrics
Pushes ==
    {<<>>,
     <<[id |-> 1, metrics |-> <<Rows(300)>>],
       [id |-> 4, metrics |-> <<Metric("duration", 9)>>]>>,
     <<[id |-> 2, metrics |-> <<Metric("shuffle write time", 8),
                                Metric("remote reqs duration", 2)>>],
       [id |-> 3, metrics |-> <<Metric("time to broadcast", 9)>>]>>}

(***************************************************************************)
(* The pipeline results of the snapshots above, computed once: the         *)
(* pipeline is a function of the snapshot, its plan and its commit, and    *)
(* the tokens are filled in per call                                       *)
(***************************************************************************)
PipelineInputs == {sql \in Snapshots9 \cup Snapshots10 : ~calculateSqlRaises(sql)}

calculateSqlTable ==
    [sql \in PipelineInputs |->
        calculateSql(sql, PlanOf(PlansFor(<<sql>>), parseInt(sql.id)),
                     CommitOf(IcebergInfo0, parseInt(sql.id)), 0)]

\* calculateSql(sql, plan, icebergCommit, stages) with the next token uuid
calculateSqlCall(sql, plan, icebergCommit, uuid) ==
    IF /\ sql \in PipelineInputs
       /\ plan = PlanOf(PlansFor(<<sql>>), parseInt(sql.id))
       /\ icebergCommit = CommitOf(IcebergInfo0, parseInt(sql.id))
    THEN [calculateSqlTable[sql] EXCEPT !.uniqueId = uuid,
                                        !.metricUpdateId = uuid + 1]
    ELSE calculateSql(sql, plan, icebergCommit, uuid)

(***************************************************************************)
(* calculateSqlStore                                                       *)
(***************************************************************************)
\* the first stored execution with parseInt(id) === id
CurrentSql(sqls, id) == Find(sqls, LAMBDA e : parseInt(e.id) = id)

\* case 4: only the volatile fields are taken from the snapshot
VolatileUpdate(currentSql, newSql) ==
    [currentSql EXCEPT !.duration = newSql.duration,
                       !.failedJobIds = newSql.failedJobIds,
                       !.runningJobIds = newSql.runningJobIds,
                       !.successJobIds = newSql.successJobIds]

\* mutant: a Running snapshot of unchanged size re-runs the pipeline
MergeCaseMutNoCase4(currentSql, newSql) ==
    IF currentSql = None THEN 1
    ELSE IF newSql.status \in {Completed, Failed} THEN 2
    ELSE 3

\* mutant: the unchanged-size test comes before the status test
MergeCaseMutCountFirst(currentSql, newSql) ==
    IF currentSql = None THEN 1
    ELSE IF currentSql[1].originalNumOfNodes = Len(newSql.nodes) THEN 4
    ELSE IF newSql.status = Completed \/ newSql.status = Failed THEN 2
    ELSE 3

\* which branch of the for loop body runs
MergeCase(currentSql, newSql) ==
    IF currentSql = None THEN 1
    ELSE IF newSql.status = Completed \/ newSql.status = Failed THEN 2
    ELSE IF currentSql[1].originalNumOfNodes # Len(newSql.nodes) THEN 3
    ELSE 4

\* one iteration of `for (const id of sqlIds)`; acc = [sqls, uuid]
MergeOne(acc, currentStore, sqls, plans, icebergInfo, id) ==
    Bind(Find(sqls, LAMBDA e : parseInt(e.id) = id)[1], LAMBDA newSql :
    Bind(CurrentSql(currentStore.sqls, id), LAMBDA currentSql :
        IF MergeCase(currentSql, newSql) = 4
        THEN [sqls |-> Append(acc.sqls, VolatileUpdate(currentSql[1], newSql)),
              uuid |-> acc.uuid]
        ELSE [sqls |-> Append(acc.sqls,
                              calculateSqlCall(newSql, PlanOf(plans, id),
                                               CommitOf(icebergInfo, id),
                                               acc.uuid)),
              uuid |-> acc.uuid + 2]))

RECURSIVE MergeLoop(_, _, _, _, _, _)
MergeLoop(acc, currentStore, sqls, plans, icebergInfo, ids) ==
    IF ids = <<>> THEN acc
    ELSE Bind(MergeOne(acc, currentStore, sqls, plans, icebergInfo, Head(ids)),
              LAMBDA next :
                  MergeLoop(next, currentStore, sqls, plans, icebergInfo, Tail(ids)))

\* Number.prototype.toString of a non-negative integer
RECURSIVE IdStr(_)
IdStr(n) == IF n < 10 THEN <<n>> ELSE IdStr(n \div 10) \o <<n % 10>>

\* mutant: compares the id strings instead of the parsed numbers
KeptSqlsMutStringCompare(currentStore, sqlIds) ==
    IF sqlIds = <<>> THEN currentStore.sqls
    ELSE SelectSeq(currentStore.sqls,
                   LAMBDA e : StrLess(e.id, IdStr(MinOf(Range(sqlIds)))))

\* currentStore.sqls.filter(sql => parseInt(sql.id) < minId);
\* Math.min() of no ids is Infinity
KeptSqls(currentStore, sqlIds) ==
    IF sqlIds = <<>> THEN currentStore.sqls
    ELSE SelectSeq(currentStore.sqls,
                   LAMBDA e : parseInt(e.id) < MinOf(Range(sqlIds)))

\* calculateSqls, used when there is no store yet: sqls.map(calculateSql);
\* acc = [sqls, uuid]
RECURSIVE calculateSqls(_, _, _, _)
calculateSqls(acc, sqls, plans, icebergInfo) ==
    IF sqls = <<>> THEN acc
    ELSE Bind(calculateSqlCall(Head(sqls),
                               PlanOf(plans, parseInt(Head(sqls).id)),
                               CommitOf(icebergInfo, parseInt(Head(sqls).id)),
                               acc.uuid),
              LAMBDA sql :
                  calculateSqls([sqls |-> Append(acc.sqls, sql),
                                 uuid |-> acc.uuid + 2],
                                Tail(sqls), plans, icebergInfo))

\* the result is [store, uuid]: the returned store, the next unused token
calculateSqlStore(currentStore, sqls, plans, icebergInfo, uuid) ==
    IF ~currentStore.defined
    THEN Bind(calculateSqls([sqls |-> <<>>, uuid |-> uuid],
                            sqls, plans, icebergInfo),
              LAMBDA done : [store |-> [defined |-> TRUE, sqls |-> done.sqls],
                             uuid |-> done.uuid])
    ELSE Bind(Map(sqls, LAMBDA e : parseInt(e.id)), LAMBDA sqlIds :
         Bind(MergeLoop([sqls |-> KeptSqls(currentStore, sqlIds), uuid |-> uuid],
                        currentStore, sqls, plans, icebergInfo, sqlIds),
              LAMBDA done : [store |-> [defined |-> TRUE, sqls |-> done.sqls],
                             uuid |-> done.uuid]))

\* some calculateSql call of calculateSqlStore raises
calculateSqlStoreRaises(currentStore, sqls) ==
    \E i \in 1..Len(sqls) :
        /\ calculateSqlRaises(sqls[i])
        /\ \/ ~currentStore.defined
           \/ MergeCase(CurrentSql(currentStore.sqls, parseInt(sqls[i].id)),
                        sqls[i]) # 4

(***************************************************************************)
(* updateSqlNodeMetrics                                                    *)
(***************************************************************************)
\* the nodes of one stage that read its cached storage, with the storage
\* info their position selects
StageStorageInfo(stage, nodes) ==
    LET cacheNodes ==
            SelectSeq(nodes,
                      LAMBDA n : /\ n.nodeName = "InMemoryTableScan"
                                 /\ n.stage # None
                                 /\ n.stage[1].type = "onestage"
                                 /\ n.stage[1].stageId = stage.stageId)
    IN  IF stage.cachedStorage = None THEN <<>>
        ELSE [i \in 1..Len(cacheNodes) |->
                 [nodeId |-> cacheNodes[i].nodeId,
                  storageInfo |-> IF i <= Len(stage.cachedStorage[1])
                                  THEN Some(stage.cachedStorage[1][i])
                                  ELSE None]]

RECURSIVE calculateNodeToStorageInfo(_, _)
calculateNodeToStorageInfo(stages, nodes) ==
    IF stages = <<>> THEN <<>>
    ELSE StageStorageInfo(Head(stages), nodes)
             \o calculateNodeToStorageInfo(Tail(stages), nodes)

\* sqlMetrics.filter(nodeMetrics => nodeMetrics.id === node.nodeId)
MatchedMetrics(sqlMetrics, nodeId) ==
    SelectSeq(sqlMetrics, LAMBDA nm : nm.id = nodeId)

\* mutant: a matched node keeps the exchangeMetrics it had
UpdateNodeMutKeepExchange(runningSql, sqlMetrics, node) ==
    LET matchedMetricsNodes == MatchedMetrics(sqlMetrics, node.nodeId)
    IN  IF Len(matchedMetricsNodes) = 0 THEN node
        ELSE Bind(generateGraph(runningSql.edges, NodeIds(runningSql.nodes)),
                  LAMBDA graph :
                      [node EXCEPT !.metrics =
                          updateNodeMetrics(node, matchedMetricsNodes[1].metrics,
                                            graph, runningSql.nodes)])

UpdateNode(runningSql, sqlMetrics, node) ==
    LET matchedMetricsNodes == MatchedMetrics(sqlMetrics, node.nodeId)
    IN  IF Len(matchedMetricsNodes) = 0 THEN node
        ELSE Bind(generateGraph(runningSql.edges, NodeIds(runningSql.nodes)),
                  LAMBDA graph :
             Bind(updateNodeMetrics(node, matchedMetricsNodes[1].metrics,
                                    graph, runningSql.nodes),
                  LAMBDA metrics :
                      [node EXCEPT !.metrics = metrics,
                                   !.exchangeMetrics =
                                       calcExchangeMetrics(node.nodeName, metrics)]))

\* mutant: a matched codegen node also takes the pushed metrics
UpdateCodegenNodeMutMetrics(sqlMetrics, node) ==
    LET matchedMetricsNodes == MatchedMetrics(sqlMetrics, node.nodeId)
    IN  IF Len(matchedMetricsNodes) = 0 THEN node
        ELSE [node EXCEPT !.metrics = matchedMetricsNodes[1].metrics,
                          !.codegenDuration =
                              calcCodegenDuration(matchedMetricsNodes[1].metrics)]

UpdateCodegenNode(sqlMetrics, node) ==
    LET matchedMetricsNodes == MatchedMetrics(sqlMetrics, node.nodeId)
    IN  IF Len(matchedMetricsNodes) = 0 THEN node
        ELSE [node EXCEPT !.codegenDuration =
                  calcCodegenDuration(
                      calcNodeMetrics(node.type, matchedMetricsNodes[1].metrics))]

WithStorageInfo(nodesWithStorageInfo, node) ==
    LET found == Find(nodesWithStorageInfo, LAMBDA x : x.nodeId = node.nodeId)
    IN  IF found = None \/ found[1].storageInfo = None THEN node
        ELSE [node EXCEPT !.storageInfo = found[1].storageInfo]

\* mutant: the execution keeps the metricUpdateId it had
UpdatedSqlMutKeepId(runningSql, nodes, codegenNodes, uuid) ==
    [runningSql EXCEPT !.nodes = nodes, !.codegenNodes = codegenNodes]

\* updatedSql; uuid is the token uuidv4() returns
UpdatedSql(runningSql, nodes, codegenNodes, uuid) ==
    [runningSql EXCEPT !.nodes = nodes,
                       !.codegenNodes = codegenNodes,
                       !.metricUpdateId = uuid]

\* mutant: an unknown id adds an empty execution to the store
UpdateMissingMutInsert(currentStore, sqlId) ==
    [currentStore EXCEPT !.sqls = Append(@, [id |-> sqlId])]

\* runningSqls.length === 0: the store itself is returned
UpdateMissing(currentStore, sqlId) == currentStore

\* the result is [store, uuid]
updateSqlNodeMetrics(currentStore, sqlId, sqlMetrics, stages, uuid) ==
    LET runningSqls == SelectSeq(currentStore.sqls, LAMBDA e : e.id = sqlId)
    IN  IF Len(runningSqls) = 0
        THEN [store |-> UpdateMissing(currentStore, sqlId), uuid |-> uuid]
        ELSE LET runningSql == runningSqls[1]
                 codegenNodes == Map(runningSql.codegenNodes,
                                     LAMBDA n : UpdateCodegenNode(sqlMetrics, n))
                 updatedSql ==
                     Bind(Map(runningSql.nodes,
                              LAMBDA n : UpdateNode(runningSql, sqlMetrics, n)),
                          LAMBDA nodes :
                     Bind(calculateNodeToStorageInfo(stages, nodes),
                          LAMBDA nodesWithStorageInfo :
                         UpdatedSql(runningSql,
                                    Map(nodes,
                                        LAMBDA n : WithStorageInfo(
                                                       nodesWithStorageInfo, n)),
                                    codegenNodes, uuid)))
                 notEffectedSqlsBefore ==
                     SelectSeq(currentStore.sqls, LAMBDA e : StrLess(e.id, sqlId))
                 notEffectedSqlsAfter ==
                     SelectSeq(currentStore.sqls, LAMBDA e : StrGreater(e.id, sqlId))
             IN  [store |-> [currentStore EXCEPT !.sqls =
                                 notEffectedSqlsBefore \o <<updatedSql>>
                                     \o notEffectedSqlsAfter],
                  uuid |-> uuid + 1]

(***************************************************************************)
(* Spec: the store under snapshot batches and metric pushes                *)
(***************************************************************************)
NoStore == [defined |-> FALSE, sqls |-> <<>>]

SqlInit ==
    /\ store = NoStore
    /\ nextUuid = 1
    /\ last = [op |-> "init", sqls |-> <<>>, sqlId |-> <<>>, sqlMetrics |-> <<>>,
               before |-> NoStore, raised |-> FALSE]

\* the variables of the other specification stay put
DagIdle ==
    /\ dagEdges = <<>>
    /\ dagAll = <<>>
    /\ dagVisible = {}
    /\ dagG = EmptyGraph
    /\ dagIdx = 0
    /\ dagPc = "idle"
    /\ dagResult = <<>>

CalcIdle ==
    /\ calcIn = None
    /\ calcPc = "idle"
    /\ calcNodes = <<>>
    /\ calcOut = None

\* setSQL: calculateSqlStore(state.sql, sqls, plans, icebergInfo, stages);
\* an exception leaves the store as it was
CalculateSqlStore(sqls) ==
    /\ IF calculateSqlStoreRaises(store, sqls)
       THEN /\ UNCHANGED <<store, nextUuid>>
            /\ last' = [op |-> "calculateSqlStore", sqls |-> sqls, sqlId |-> <<>>,
                        sqlMetrics |-> <<>>, before |-> store, raised |-> TRUE]
       ELSE \E r \in {calculateSqlStore(store, sqls, PlansFor(sqls), IcebergInfo0,
                                        nextUuid)} :
                /\ r.uuid <= MaxUuid + 1
                /\ store' = r.store
                /\ nextUuid' = r.uuid
                /\ last' = [op |-> "calculateSqlStore", sqls |-> sqls,
                            sqlId |-> <<>>, sqlMetrics |-> <<>>,
                            before |-> store, raised |-> FALSE]
    /\ UNCHANGED <<dagVars, calcVars, sliceVars>>

\* setSQLMetrics: updateSqlNodeMetrics(state.sql, sqlId, value, state.stages),
\* only once state.sql is defined
UpdateSqlNodeMetrics(sqlId, sqlMetrics) ==
    /\ store.defined
    /\ \E r \in {updateSqlNodeMetrics(store, sqlId, sqlMetrics, Stages0, nextUuid)} :
           /\ r.uuid <= MaxUuid + 1
           /\ store' = r.store
           /\ nextUuid' = r.uuid
           /\ last' = [op |-> "updateSqlNodeMetrics", sqls |-> <<>>,
                       sqlId |-> sqlId, sqlMetrics |-> sqlMetrics,
                       before |-> store, raised |-> FALSE]
    /\ UNCHANGED <<dagVars, calcVars, sliceVars>>

Next ==
    \/ \E sqls \in Batches : CalculateSqlStore(sqls)
    \/ \E sqlId \in SqlIds, sqlMetrics \in Pushes :
           UpdateSqlNodeMetrics(sqlId, sqlMetrics)

Init == SqlInit /\ DagIdle /\ CalcIdle /\ SliceIdle

Spec == Init /\ [][Next]_vars

(***************************************************************************)
(* SpecSql: calculateSql on one snapshot, stage by stage                   *)
(***************************************************************************)
\* an execution of a single node
ShapeSingle(name) ==
    [nodes |-> <<RawNode(0, name, <<Rows(5)>>)>>, edges |-> <<>>]

SingleNames == {"LocalTableScan", "Execute InsertIntoHadoopFsRelationCommand",
                "Project", "AdaptiveSparkPlan"}

\* only a wrapper operator and a codegen node
ShapeWrappers ==
    [nodes |-> <<RawNode(0, "ResultQueryStage", <<>>),
                 RawNode(1, "WholeStageCodegen (1)", <<Metric("duration", 1)>>)>>,
     edges |-> <<>>]

\* a join of two projections, each over a scan; out, ma and mb are the
\* metrics of the join and of the two scans
ShapeJoinFed(out, ma, mb) ==
    [nodes |-> <<RawNode(0, "SortMergeJoin", out),
                 RawNode(1, "Project", <<>>),
                 RawNode(2, "Project", <<>>),
                 RawNode(3, "Scan parquet", ma),
                 RawNode(4, "Scan parquet", mb)>>,
     edges |-> <<<<3, 1>>, <<4, 2>>, <<1, 0>>, <<2, 0>>>>]

\* the same join with one incoming edge, and with three
ShapeJoinOneInput ==
    [ShapeJoinFed(<<Rows(50)>>, <<Rows(100)>>, <<Rows(200)>>) EXCEPT
        !.edges = <<<<3, 1>>, <<4, 2>>, <<1, 0>>>>]

ShapeJoinThreeInputs ==
    [ShapeJoinFed(<<Rows(50)>>, <<Rows(100)>>, <<Rows(200)>>) EXCEPT
        !.edges = <<<<3, 1>>, <<4, 2>>, <<1, 0>>, <<2, 0>>, <<4, 0>>>>]

JoinShapes ==
    {ShapeJoinFed(out, ma, mb) :
        out \in {<<>>, <<Rows(50)>>, <<Rows(200)>>, <<Rows(500)>>},
        ma \in {<<Rows(100)>>, <<Rows(0)>>},
        mb \in {<<>>, <<Rows(200)>>, <<Rows(0)>>}}
    \cup {ShapeJoinOneInput, ShapeJoinThreeInputs}

\* a filter over a projection over a scan, written out; up and out are the
\* metrics of the scan and of the filter
ShapeFilterFed(up, out) ==
    [nodes |-> <<RawNode(0, "Scan parquet", up),
                 RawNode(1, "Project", <<>>),
                 RawNode(2, "Filter", out),
                 RawNode(3, "Execute InsertIntoHadoopFsRelationCommand", <<>>)>>,
     edges |-> <<<<0, 1>>, <<1, 2>>, <<2, 3>>>>]

\* a filter that reads nothing, and a filter under a union of two scans
ShapeFilterSource ==
    [nodes |-> <<RawNode(0, "Filter", <<Rows(7)>>),
                 RawNode(1, "Project", <<Rows(7)>>)>>,
     edges |-> <<<<0, 1>>>>]

ShapeFilterTwoInputs ==
    [nodes |-> <<RawNode(0, "Scan parquet", <<Rows(10)>>),
                 RawNode(1, "Scan parquet", <<Rows(20)>>),
                 RawNode(2, "Filter", <<Rows(7)>>)>>,
     edges |-> <<<<0, 2>>, <<1, 2>>>>]

FilterShapes ==
    {ShapeFilterFed(up, out) :
        up \in {<<>>, <<Rows(0)>>, <<Rows(1000)>>},
        out \in {<<>>, <<Rows(0)>>, <<Rows(400)>>, <<Rows(1000)>>}}
    \cup {ShapeFilterSource, ShapeFilterTwoInputs}

\* the last graph node is a wrapper operator
ShapeAqeLast ==
    [nodes |-> <<RawNode(0, "Scan parquet", <<Rows(10)>>),
                 RawNode(1, "Project", <<>>),
                 RawNode(2, "AdaptiveSparkPlan", <<>>),
                 RawNode(3, "WholeStageCodegen (1)", <<Metric("duration", 2)>>)>>,
     edges |-> <<<<0, 1>>, <<1, 2>>>>]

CalcShapes ==
    {ShapeScanAgg, ShapeWrite, ShapeJoin, ShapeEmpty, ShapeWrappers, ShapeAqeLast}
    \cup {ShapeSingle(name) : name \in SingleNames}
    \cup JoinShapes \cup FilterShapes

\* the plan of an execution: describe gives each node id its description
PlanWith(sql, describe(_)) ==
    Some([executionId |-> parseInt(sql.id),
          nodesPlan |-> Map(sql.nodes,
                            LAMBDA n : [id |-> n.nodeId,
                                        planDescription |-> describe(n.nodeId),
                                        rddScopeId |-> None])])

\* no plan, every description parseable, the description of one node
\* unparseable, the aggregations without aggregate functions
CalcPlans(sql) ==
    {None, PlanWith(sql, LAMBDA id : "plan"),
           PlanWith(sql, LAMBDA id : DistinctDescription)}
    \cup {PlanWith(sql, LAMBDA id : IF id = k THEN BadDescription ELSE "plan") :
              k \in Range(NodeIds(sql.nodes))}

CalcCommits == {None, Some([executionId |-> 9, tableName |-> "t"])}

CalcSql(sh) == Snapshot(<<9>>, Running, Volatile1, sh)

CalcInit ==
    /\ SqlInit
    /\ DagIdle
    /\ SliceIdle
    /\ \E sh \in CalcShapes : \E plan \in CalcPlans(CalcSql(sh)) :
       \E commit \in CalcCommits :
           calcIn = Some([sql |-> CalcSql(sh), plan |-> plan,
                          icebergCommit |-> commit])
    /\ calcPc = "start"
    /\ calcNodes = <<>>
    /\ calcOut = None

\* const typeEnrichedNodes = enrichedSql.nodes.map(...)
CalcTypeEnrich ==
    /\ calcPc = "start"
    /\ calcNodes' = typeEnrichedNodes(calcIn[1].sql, calcIn[1].plan,
                                      calcIn[1].icebergCommit)
    /\ calcPc' = "typed"
    /\ UNCHANGED <<calcIn, calcOut, dagVars, sqlVars, sliceVars>>

\* onlyGraphNodes and the forced output; `lastNode.type = "output"` on an
\* undefined lastNode raises a TypeError
CalcForceOutput ==
    /\ calcPc = "typed"
    /\ IF calculateSqlRaises(calcIn[1].sql)
       THEN /\ calcPc' = "raised"
            /\ UNCHANGED calcNodes
       ELSE /\ calcPc' = "forced"
            /\ calcNodes' = [typed |-> calcNodes,
                             graphNodes |-> onlyGraphNodes(calcNodes)]
    /\ UNCHANGED <<calcIn, calcOut, dagVars, sqlVars, sliceVars>>

\* metricEnrichedNodes, the three tiers and the returned object
CalcFinish ==
    /\ calcPc = "forced"
    /\ calcOut' = Some(EnrichedSql(calcIn[1].sql, calcNodes.typed,
                                   calcNodes.graphNodes, 1))
    /\ calcPc' = "done"
    /\ UNCHANGED <<calcIn, calcNodes, dagVars, sqlVars, sliceVars>>

CalcNext == CalcTypeEnrich \/ CalcForceOutput \/ CalcFinish

SpecSql == CalcInit /\ [][CalcNext]_vars

(***************************************************************************)
(* SpecSlice: the slice actions on the application state.  A slot holds    *)
(* None (undefined) or Some(v), v standing for the value that the reducer  *)
(* outside this file computed from the payload v.                          *)
(***************************************************************************)
SliceValues == {1, 2}

\* state.x && ...: a defined store object is truthy
Truthy(slot) == slot # None

AllStoresDefined(s) ==
    /\ Truthy(s.config)
    /\ Truthy(s.jobs)
    /\ Truthy(s.sql)
    /\ Truthy(s.executors)
    /\ Truthy(s.stages)

setInitial(s, p) ==
    [s EXCEPT !.isConnected = TRUE,
              !.isInitialized = TRUE,
              !.runMetadata = Some([appId |-> p.appId]),
              !.config = Some(p.config),
              !.status = Some([duration |-> p.epocCurrentTime, sqlIdleTime |-> 0,
                               stages |-> None, executors |-> None]),
              !.environmentInfo = Some(p.environmentInfo),
              !.alerts = Some(<<>>),
              !.sql = None,
              !.stages = None,
              !.jobs = None,
              !.executors = None]

\* calculateStageStatus returns the status it was given when the payload
\* brings nothing new
setStages(s, p) ==
    IF s.status = None THEN s
    ELSE LET stageStatus == Some(p.value)
         IN  IF stageStatus # s.status[1].stages
             THEN [s EXCEPT !.status = Some([@[1] EXCEPT !.stages = stageStatus]),
                            !.stages = Some(p.value)]
             ELSE s

setSparkExecutors(s, p) ==
    IF s.runMetadata = None \/ s.status = None \/ s.config = None THEN s
    ELSE [s EXCEPT !.status = Some([@[1] EXCEPT !.executors = Some(p.value)]),
                   !.executors = Some(p.value),
                   !.executorTimeline = Some(p.value)]

setSQLMetrics(s, p) ==
    IF s.status = None THEN s
    ELSE IF AllStoresDefined(s) THEN [s EXCEPT !.sql = Some(p.value)]
    ELSE s

updateDuration(s, p) ==
    IF s.status = None THEN s
    ELSE [s EXCEPT !.status = Some([@[1] EXCEPT !.duration = p.epocCurrentTime])]

updateConnection(s, p) ==
    IF s.isConnected # p.isConnected
    THEN [s EXCEPT !.isConnected = p.isConnected]
    ELSE s

\* mutant: the jobs are stored whether or not the stages are there
setSparkJobsMutNoGuard(s, p) == [s EXCEPT !.jobs = Some(p.value)]

setSparkJobs(s, p) ==
    IF Truthy(s.stages) THEN [s EXCEPT !.jobs = Some(p.value)] ELSE s

\* p.raises: calculateSqlStore raises on this payload and the reducer leaves
\* the state as it was
setSQL(s, p) ==
    IF s.status = None \/ s.stages = None THEN s
    ELSE IF p.raises THEN s
    ELSE [s EXCEPT !.sql = Some(p.value)]

\* idle is Math.max(0, calculateSqlIdleTime(...))
onCycleEnd(s, idle) ==
    IF s.status = None THEN s
    ELSE LET s1 == IF s.sql # None /\ s.status[1].stages # None
                   THEN [s EXCEPT !.status =
                            Some([@[1] EXCEPT !.sqlIdleTime = idle])]
                   ELSE s
         IN  IF AllStoresDefined(s1)
             THEN [s1 EXCEPT !.alerts = Some(<<s1.sql[1]>>)]
             ELSE s1

\* the store applies the reducer of the dispatched action to the state
Dispatch(action, newState) ==
    /\ state' = newState
    /\ sliceLast' = [action |-> action, before |-> state]
    /\ UNCHANGED <<dagVars, sqlVars, calcVars>>

SetInitial ==
    \E appId \in {1}, config \in {1}, epoc \in SliceValues :
        Dispatch("setInitial",
                 setInitial(state, [appId |-> appId, config |-> config,
                                    epocCurrentTime |-> epoc,
                                    environmentInfo |-> 1]))

SetStages ==
    \E v \in SliceValues : Dispatch("setStages", setStages(state, [value |-> v]))

SetSparkExecutors ==
    \E v \in {1} :
        Dispatch("setSparkExecutors", setSparkExecutors(state, [value |-> v]))

SetSQLMetrics ==
    \E v \in SliceValues :
        Dispatch("setSQLMetrics", setSQLMetrics(state, [value |-> v]))

UpdateDuration ==
    \E epoc \in SliceValues :
        Dispatch("updateDuration", updateDuration(state, [epocCurrentTime |-> epoc]))

UpdateConnection ==
    \E c \in BOOLEAN :
        Dispatch("updateConnection", updateConnection(state, [isConnected |-> c]))

SetSparkJobs ==
    \E v \in {1} : Dispatch("setSparkJobs", setSparkJobs(state, [value |-> v]))

SetSQL ==
    \E v \in SliceValues, raises \in BOOLEAN :
        Dispatch("setSQL", setSQL(state, [value |-> v, raises |-> raises]))

OnCycleEnd ==
    \E idle \in {0, 1} : Dispatch("onCycleEnd", onCycleEnd(state, idle))

SliceInit ==
    /\ SqlInit
    /\ DagIdle
    /\ CalcIdle
    /\ SliceIdle

SliceNext ==
    \/ SetInitial
    \/ SetStages
    \/ SetSparkExecutors
    \/ SetSQLMetrics
    \/ UpdateDuration
    \/ UpdateConnection
    \/ SetSparkJobs
    \/ SetSQL
    \/ OnCycleEnd

SpecSlice == SliceInit /\ [][SliceNext]_vars

(***************************************************************************)
(* SpecDAG: cleanUpDAG on every small input, one forEach iteration a step  *)
(***************************************************************************)
MaxDagEdges == 3

DagIds == {0, 1, 2, 3}

DagPairs == {e \in DagIds \X DagIds : e[1] # e[2]}

\* allNodes lists every node once, in ascending or in descending id order;
\* the edge lists range over every labelling, so every relative order of
\* the non-visible nodes along a path occurs
DagOrders == {p \in Perms(DagIds) :
                 \/ \A i \in 1..(Len(p) - 1) : p[i] < p[i + 1]
                 \/ \A i \in 1..(Len(p) - 1) : p[i] > p[i + 1]}

\* the variables of the other specification stay put
SqlIdle ==
    /\ store = NoStore
    /\ nextUuid = 1
    /\ last = [op |-> "init", sqls |-> <<>>, sqlId |-> <<>>, sqlMetrics |-> <<>>,
               before |-> NoStore, raised |-> FALSE]

DagInit ==
    /\ SqlIdle
    /\ CalcIdle
    /\ SliceIdle
    /\ dagEdges \in SeqsUpTo(DagPairs, MaxDagEdges)
    /\ dagAll \in DagOrders
    /\ dagVisible \in SUBSET DagIds
    /\ dagG = generateGraph(dagEdges, dagAll)
    /\ dagIdx = 1
    /\ dagPc = "loop"
    /\ dagResult = <<>>

DagStep ==
    /\ dagPc = "loop"
    /\ dagIdx <= Len(notVisibleNodes(dagAll, dagVisible))
    /\ dagG' = ContractNode(dagG, notVisibleNodes(dagAll, dagVisible)[dagIdx])
    /\ dagIdx' = dagIdx + 1
    /\ UNCHANGED <<dagEdges, dagAll, dagVisible, dagPc, dagResult>>
    /\ UNCHANGED <<sqlVars, calcVars, sliceVars>>

DagFinish ==
    /\ dagPc = "loop"
    /\ dagIdx > Len(notVisibleNodes(dagAll, dagVisible))
    /\ dagResult' = removeRedundentEdges(dagG, dagVisible)
    /\ dagPc' = "done"
    /\ UNCHANGED <<dagEdges, dagAll, dagVisible, dagG, dagIdx>>
    /\ UNCHANGED <<sqlVars, calcVars, sliceVars>>

DagNext == DagStep \/ DagFinish

SpecDAG == DagInit /\ [][DagNext]_vars

(***************************************************************************)
(* Claims about cleanUpDAG (checked under SpecDAG)                         *)
(***************************************************************************)
DagInput == generateGraph(dagEdges, dagAll)

\* C1: every edge returned by cleanUpDAG(E, N, V) has its fromId and its toId
\* in V, and no node of V is removed from the working graph at any point of
\* the contraction.
C1_ContractionEndpoints ==
    dagPc # "idle" =>
        /\ dagVisible \subseteq dagG.nodes
        /\ dagPc = "done" =>
               \A i \in 1..Len(dagResult) :
                   dagResult[i][1] \in dagVisible /\ dagResult[i][2] \in dagVisible

\* a contraction that removed a node and a dangling edge, and returned an edge
C1_Witness ==
    /\ dagPc = "done"
    /\ dagResult # <<>>
    /\ dagG.nodes # DagIds
    /\ \E i \in 1..Len(dagG.edges) : dagG.edges[i][2] \notin dagVisible

\* the non-visible members of allNodes with exactly one outgoing edge in g
HiddenSingles(g) ==
    {h \in Range(dagAll) : h \notin dagVisible /\ Len(GraphOutEdges(g, h)) = 1}

\* a -> hs[1] -> ... -> hs[k] -> b in g, k >= 1
IsChain(g, a, hs, b) ==
    /\ Len(hs) >= 1
    /\ GraphHasEdge(g, a, hs[1])
    /\ \A i \in 1..(Len(hs) - 1) : GraphHasEdge(g, hs[i], hs[i + 1])
    /\ GraphHasEdge(g, hs[Len(hs)], b)

\* the chains through hidden single-successor nodes: a node with one
\* outgoing edge cannot occur twice on a chain that ends at a visible node
DagChains(g) == SeqsUpTo(HiddenSingles(g), Cardinality(HiddenSingles(g)))

\* C2: when visible A reaches visible B through a chain of non-visible nodes
\* with exactly one outgoing edge each, the result holds the edge (A, B),
\* in whatever order allNodes lists the non-visible nodes.
C2_ChainBecomesEdge ==
    dagPc = "done" =>
        LET g0 == DagInput
            chains == DagChains(g0)
        IN  \A hs \in chains : \A a \in dagVisible, b \in dagVisible :
                IsChain(g0, a, hs, b) => <<a, b>> \in Range(dagResult)

\* a chain of two hidden nodes that allNodes lists successor first
C2_Witness ==
    /\ dagPc = "done"
    /\ LET g0 == DagInput
       IN  \E hs \in DagChains(g0) : \E a \in dagVisible, b \in dagVisible :
               /\ IsChain(g0, a, hs, b)
               /\ Len(hs) = 2
               /\ a # b
               /\ \E i, j \in 1..Len(dagAll) :
                      i < j /\ dagAll[i] = hs[2] /\ dagAll[j] = hs[1]
               /\ <<a, b>> \in Range(dagResult)

(***************************************************************************)
(* Claims about the store (checked under Spec)                             *)
(***************************************************************************)
\* the last call was a calculateSqlStore on an existing store that returned
MergedBatch ==
    /\ last.op = "calculateSqlStore"
    /\ ~last.raised
    /\ last.before.defined

\* the stored execution with the numeric id, or None
ExecOf(sqls, id) == Find(sqls, LAMBDA e : parseInt(e.id) = id)

EdgesWithin(tier) ==
    \A i \in 1..Len(tier.edges) :
        /\ tier.edges[i][1] \in Range(tier.nodesIds)
        /\ tier.edges[i][2] \in Range(tier.nodesIds)

TiersWellFormed(e) ==
    /\ EdgesWithin(e.filters.io)
    /\ EdgesWithin(e.filters.basic)
    /\ EdgesWithin(e.filters.advanced)
    /\ Range(e.filters.io.nodesIds) \subseteq Range(e.filters.basic.nodesIds)
    /\ Range(e.filters.basic.nodesIds) \subseteq Range(e.filters.advanced.nodesIds)
    /\ Range(e.filters.advanced.nodesIds)
           \subseteq {e.nodes[i].nodeId : i \in {j \in 1..Len(e.nodes) :
                                                    ~e.nodes[j].isCodegenNode}}

\* C3: in every reachable store, every edge of each tier of each execution
\* has both endpoints in that tier's nodesIds, and io.nodesIds is a subset of
\* basic.nodesIds, a subset of advanced.nodesIds, a subset of the ids of the
\* non-codegen nodes.
C3_TiersWellFormed ==
    \A i \in 1..Len(store.sqls) : TiersWellFormed(store.sqls[i])

\* after a push: an execution whose io tier holds a contracted edge and is
\* strictly smaller than its basic tier, next to one with a join in io
C3_Witness ==
    /\ last.op = "updateSqlNodeMetrics"
    /\ \E i \in 1..Len(store.sqls) :
           LET e == store.sqls[i]
           IN  /\ \E k \in 1..Len(e.filters.io.edges) :
                      e.filters.io.edges[k] \notin Range(e.edges)
               /\ Range(e.filters.io.nodesIds) # Range(e.filters.basic.nodesIds)
               /\ Len(e.codegenNodes) > 0
    /\ \E i \in 1..Len(store.sqls) :
           \E k \in 1..Len(store.sqls[i].nodes) :
               /\ store.sqls[i].nodes[k].type = "join"
               /\ store.sqls[i].nodes[k].nodeId
                      \in Range(store.sqls[i].filters.io.nodesIds)

VolatileFields == {"duration", "runningJobIds", "failedJobIds", "successJobIds"}

\* the snapshot n meets a stored Running execution of the same size
IsVolatileCase(cur, n) ==
    /\ cur # None
    /\ cur[1].status = Running
    /\ n.status = Running
    /\ Len(n.nodes) = cur[1].originalNumOfNodes

\* C4: a Running snapshot whose node count equals the stored
\* originalNumOfNodes of a stored Running execution changes that execution
\* only in duration, runningJobIds, failedJobIds and successJobIds.
C4_VolatileOnly ==
    MergedBatch =>
        \A k \in 1..Len(last.sqls) :
            LET n == last.sqls[k]
                cur == ExecOf(last.before.sqls, parseInt(n.id))
                new == ExecOf(store.sqls, parseInt(n.id))
            IN  IsVolatileCase(cur, n) =>
                    /\ new # None
                    /\ DOMAIN new[1] = DOMAIN cur[1]
                    /\ \A f \in DOMAIN cur[1] \ VolatileFields :
                           new[1][f] = cur[1][f]

\* such a snapshot arrived with another plan and another duration, after a
\* metric push had changed the stored nodes
C4_Witness ==
    /\ MergedBatch
    /\ \E k \in 1..Len(last.sqls) :
           LET n == last.sqls[k]
               cur == ExecOf(last.before.sqls, parseInt(n.id))
               new == ExecOf(store.sqls, parseInt(n.id))
           IN  /\ IsVolatileCase(cur, n)
               /\ n.duration # cur[1].duration
               /\ new[1].duration = n.duration
               /\ n.nodes[1].nodeName # cur[1].nodes[1].nodeName
               /\ cur[1].metricUpdateId # cur[1].uniqueId + 1

\* C5: an execution's uniqueId is assigned when its id is first
\* materialized and is retained by every later calculateSqlStore snapshot for
\* that id, a Running -> Running snapshot of another node count included.
C5_UniqueIdRetained ==
    MergedBatch =>
        \A k \in 1..Len(last.sqls) :
            LET n == last.sqls[k]
                cur == ExecOf(last.before.sqls, parseInt(n.id))
                new == ExecOf(store.sqls, parseInt(n.id))
            IN  cur # None => (new # None /\ new[1].uniqueId = cur[1].uniqueId)

\* C6: a stored execution with status Completed or Failed is terminal: a
\* later calculateSqlStore snapshot containing its id leaves it unchanged.
C6_TerminalUnchanged ==
    MergedBatch =>
        \A k \in 1..Len(last.sqls) :
            LET n == last.sqls[k]
                cur == ExecOf(last.before.sqls, parseInt(n.id))
                new == ExecOf(store.sqls, parseInt(n.id))
            IN  (cur # None /\ cur[1].status \in {Completed, Failed}) =>
                    new = cur

\* an execution with the tokens blanked
NoTokens(e) == [e EXCEPT !.uniqueId = 0, !.metricUpdateId = 0]

\* the snapshot n ends a stored Running execution
IsTerminalCase(cur, n) ==
    /\ cur # None
    /\ cur[1].status = Running
    /\ n.status \in {Completed, Failed}

\* C7: a Completed or Failed snapshot for a stored Running execution
\* replaces it by the result of the full pipeline on the new snapshot, also
\* when the node count is unchanged, and the stored status becomes the
\* snapshot's terminal status.
C7_TerminalRerunsPipeline ==
    MergedBatch =>
        \A k \in 1..Len(last.sqls) :
            LET n == last.sqls[k]
                id == parseInt(n.id)
                cur == ExecOf(last.before.sqls, id)
                new == ExecOf(store.sqls, id)
            IN  IsTerminalCase(cur, n) =>
                    /\ new # None
                    /\ new[1].status = n.status
                    /\ NoTokens(new[1]) =
                           NoTokens(calculateSql(n, PlanOf(PlansFor(last.sqls), id),
                                                 CommitOf(IcebergInfo0, id), 0))

\* a terminal snapshot of unchanged node count but another plan
C7_Witness ==
    /\ MergedBatch
    /\ \E k \in 1..Len(last.sqls) :
           LET n == last.sqls[k]
               cur == ExecOf(last.before.sqls, parseInt(n.id))
               new == ExecOf(store.sqls, parseInt(n.id))
           IN  /\ IsTerminalCase(cur, n)
               /\ Len(n.nodes) = cur[1].originalNumOfNodes
               /\ n.nodes[1].nodeName # cur[1].nodes[1].nodeName
               /\ new[1].status = Failed
               /\ new[1].nodes[1].nodeName = n.nodes[1].nodeName

\* C8: the store's executions are in ascending numeric id order with no id
\* twice, after any sequence of snapshot batches and metric pushes.
C8_StoreOrdered ==
    \A i, j \in 1..Len(store.sqls) :
        i < j => parseInt(store.sqls[i].id) < parseInt(store.sqls[j].id)

\* the stored executions calculateSqlStore has to keep
KeptBefore ==
    SelectSeq(last.before.sqls,
              LAMBDA e : \A k \in 1..Len(last.sqls) :
                             parseInt(e.id) < parseInt(last.sqls[k].id))

\* C9: calculateSqlStore keeps every stored execution whose numeric id is
\* below the minimum id of the batch exactly as it was, in the same relative
\* order; with an empty batch every stored execution is kept.
C9_OlderKept ==
    MergedBatch =>
        SelectSeq(store.sqls,
                  LAMBDA e : \E i \in 1..Len(KeptBefore) :
                                 KeptBefore[i].id = e.id)
            = KeptBefore

\* execution 9 kept below a batch holding only execution 10
C9_Witness ==
    /\ MergedBatch
    /\ Len(last.sqls) = 1
    /\ last.sqls[1].id = <<1, 0>>
    /\ Len(KeptBefore) = 1
    /\ Len(store.sqls) = 2
    /\ store.sqls[1] = KeptBefore[1]
    /\ store.sqls[2].id = <<1, 0>>

\* C10: updateSqlNodeMetrics with an execution id that is not in the store
\* returns the store unchanged and raises no error.
C10_UnknownIdNoOp ==
    (/\ last.op = "updateSqlNodeMetrics"
     /\ \A i \in 1..Len(last.before.sqls) : last.before.sqls[i].id # last.sqlId)
        => (store = last.before /\ ~last.raised)

\* a push with metrics for execution 10 while only execution 9 is stored
C10_Witness ==
    /\ last.op = "updateSqlNodeMetrics"
    /\ last.sqlId = <<1, 0>>
    /\ last.sqlMetrics # <<>>
    /\ Len(store.sqls) = 1
    /\ store.sqls[1].id = <<9>>
    /\ store = last.before

\* the last call was an updateSqlNodeMetrics for a stored execution
PushedTracked ==
    /\ last.op = "updateSqlNodeMetrics"
    /\ \E i \in 1..Len(last.before.sqls) : last.before.sqls[i].id = last.sqlId

\* the execution with the id string, before and after the push
TargetBefore == Find(last.before.sqls, LAMBDA e : e.id = last.sqlId)[1]

TargetAfter == Find(store.sqls, LAMBDA e : e.id = last.sqlId)[1]

PushedIds == {last.sqlMetrics[k].id : k \in 1..Len(last.sqlMetrics)}

\* C11: in updateSqlNodeMetrics, every node of the target execution for which
\* the push carries no entry with a matching node id is returned unchanged:
\* all of its fields, metrics, exchangeMetrics and storageInfo included, equal
\* their values before the call.
C11_UnmatchedNodeUnchanged ==
    PushedTracked =>
        /\ Len(TargetAfter.nodes) = Len(TargetBefore.nodes)
        /\ \A i \in 1..Len(TargetBefore.nodes) :
               TargetBefore.nodes[i].nodeId \notin PushedIds =>
                   TargetAfter.nodes[i] = TargetBefore.nodes[i]

\* every token a store holds
TokensOf(sqls) ==
    UNION {{sqls[i].uniqueId, sqls[i].metricUpdateId} : i \in 1..Len(sqls)}

\* C12: every updateSqlNodeMetrics call on a tracked execution gives that
\* execution a metricUpdateId that differs from its previous one and from
\* every token issued before, while its uniqueId, edges and three tiers stay
\* unchanged and every other execution of the store is left untouched.
C12_FreshMetricUpdateId ==
    PushedTracked =>
        /\ TargetAfter.metricUpdateId # TargetBefore.metricUpdateId
        /\ TargetAfter.metricUpdateId \notin TokensOf(last.before.sqls)
        /\ \A t \in TokensOf(last.before.sqls) : t < TargetAfter.metricUpdateId
        /\ TargetAfter.uniqueId = TargetBefore.uniqueId
        /\ TargetAfter.edges = TargetBefore.edges
        /\ TargetAfter.filters = TargetBefore.filters
        /\ Len(store.sqls) = Len(last.before.sqls)
        /\ \A i \in 1..Len(last.before.sqls) :
               last.before.sqls[i].id # last.sqlId =>
                   \E j \in 1..Len(store.sqls) :
                       store.sqls[j] = last.before.sqls[i]

\* an empty push for execution 9 while execution 10 is stored too
C12_Witness ==
    /\ PushedTracked
    /\ last.sqlMetrics = <<>>
    /\ last.sqlId = <<9>>
    /\ Len(store.sqls) = 2
    /\ TargetAfter.metricUpdateId > TargetBefore.metricUpdateId
    /\ \E j \in 1..Len(store.sqls) : store.sqls[j].id = <<1, 0>>

\* C13: in updateSqlNodeMetrics a codegen wrapper node with matching new
\* metrics changes only in its codegenDuration; its metrics, type, name and
\* every other field are as before the call, and codegen nodes without
\* matching metrics are unchanged.
C13_CodegenOnlyDuration ==
    PushedTracked =>
        /\ Len(TargetAfter.codegenNodes) = Len(TargetBefore.codegenNodes)
        /\ \A i \in 1..Len(TargetBefore.codegenNodes) :
               LET old == TargetBefore.codegenNodes[i]
                   new == TargetAfter.codegenNodes[i]
               IN  IF old.nodeId \in PushedIds
                   THEN /\ DOMAIN new = DOMAIN old
                        /\ \A f \in DOMAIN old \ {"codegenDuration"} :
                               new[f] = old[f]
                   ELSE new = old

\* a push changed the duration of codegen node 4 and left its metrics alone
C13_Witness ==
    /\ PushedTracked
    /\ \E i \in 1..Len(TargetBefore.codegenNodes) :
           /\ TargetBefore.codegenNodes[i].nodeId \in PushedIds
           /\ TargetAfter.codegenNodes[i].codegenDuration
                  # TargetBefore.codegenNodes[i].codegenDuration
           /\ TargetAfter.codegenNodes[i].codegenDuration = Some(9)
           /\ TargetAfter.codegenNodes[i].metrics
                  = TargetBefore.codegenNodes[i].metrics
    /\ \E i \in 1..Len(TargetBefore.nodes) :
           TargetBefore.nodes[i].nodeId \in PushedIds

(***************************************************************************)
(* Claims about calculateSql (checked under SpecSql)                       *)
(***************************************************************************)
CalcDone == calcPc = "done"

\* the positions of the snapshot's nodes that are not codegen wrappers
GraphPositions(sql) ==
    {i \in 1..Len(sql.nodes) : ~isCodegenName(sql.nodes[i].nodeName)}

\* some graph node classifies as output by its name
NaturalOutput(sql) ==
    \E i \in GraphPositions(sql) : calcNodeType(sql.nodes[i].nodeName) = "output"

\* the graph nodes that are not a wrapper operator
EligiblePositions(sql) ==
    {i \in GraphPositions(sql) :
        sql.nodes[i].nodeName \notin {"AdaptiveSparkPlan", "ResultQueryStage"}}

\* the id of the node the claim expects to be forced to output
ForcedId(sql) == sql.nodes[MaxOf(EligiblePositions(sql))].nodeId

InAllTiers(e, id) ==
    /\ id \in Range(e.filters.io.nodesIds)
    /\ id \in Range(e.filters.basic.nodesIds)
    /\ id \in Range(e.filters.advanced.nodesIds)

\* C14: when no non-codegen node classifies as output by its name, exactly
\* one node of the result is reassigned to output, the last non-codegen node
\* named neither AdaptiveSparkPlan nor ResultQueryStage; it has type output
\* in the nodes and is in all three tiers, and every other node keeps its
\* natural classification.  When some node classifies as output by its name
\* no node is reassigned.
C14_ForcedOutput ==
    CalcDone =>
        LET sql == calcIn[1].sql
            out == calcOut[1]
        IN  /\ Len(out.nodes) = Cardinality(GraphPositions(sql))
            /\ \A k \in 1..Len(out.nodes) :
                   out.nodes[k].type =
                       IF ~NaturalOutput(sql) /\ out.nodes[k].nodeId = ForcedId(sql)
                       THEN "output"
                       ELSE calcNodeType(out.nodes[k].nodeName)
            /\ ~NaturalOutput(sql) =>
                   /\ \E k \in 1..Len(out.nodes) :
                          out.nodes[k].nodeId = ForcedId(sql)
                   /\ InAllTiers(out, ForcedId(sql))

\* the forced node is followed by a wrapper operator and preceded by
\* another eligible node, and was not an output by its name
C14_Witness ==
    /\ CalcDone
    /\ ~NaturalOutput(calcIn[1].sql)
    /\ \E k \in 1..Len(calcOut[1].nodes) :
           /\ k > 1 /\ k < Len(calcOut[1].nodes)
           /\ calcOut[1].nodes[k].nodeId = ForcedId(calcIn[1].sql)
           /\ calcOut[1].nodes[k].type = "output"
           /\ calcNodeType(calcOut[1].nodes[k].nodeName) = "transformation"
           /\ calcOut[1].nodes[k + 1].nodeName = "AdaptiveSparkPlan"
           /\ calcOut[1].nodes[k - 1].type = "input"

\* C15: when the execution has exactly one node, the pipeline skips the
\* input/output classification of that node whatever its name (its type is
\* neither derived from the name as input or output nor forced to output)
\* and the node carries the execution's engine commit.
C15_SingleNodeUnclassified ==
    (CalcDone /\ Len(calcIn[1].sql.nodes) = 1) =>
        /\ Len(calcOut[1].nodes) = 1
        /\ calcOut[1].nodes[1].type \notin {"input", "output"}
        /\ calcOut[1].nodes[1].icebergCommit = calcIn[1].icebergCommit

\* the nodes of the result that carry an engine commit
CommitCarriers(e) ==
    {k \in 1..Len(e.nodes) : e.nodes[k].icebergCommit # None}

\* C16: after the pipeline ran on an execution that has an engine commit,
\* exactly one node of the result carries it: the node whose final type is
\* output, natural or forced, or the sole node of a single-node execution.
C16_OneCommitCarrier ==
    (CalcDone /\ calcIn[1].icebergCommit # None) =>
        /\ Cardinality(CommitCarriers(calcOut[1])) = 1
        /\ \A k \in 1..Len(calcOut[1].nodes) :
               LET n == calcOut[1].nodes[k]
               IN  /\ n.icebergCommit \in {None, calcIn[1].icebergCommit}
                   /\ n.icebergCommit # None <=>
                          (n.type = "output" \/ Len(calcIn[1].sql.nodes) = 1)

\* the node ids whose plan description the operator parser fails on
FailedIds(in) ==
    IF in.plan = None THEN {}
    ELSE {in.sql.nodes[i].nodeId : i \in {j \in 1..Len(in.sql.nodes) :
             /\ ParsedPlanType(in.sql.nodes[j].nodeName) # None
             /\ \E q \in 1..Len(in.plan[1].nodesPlan) :
                    /\ in.plan[1].nodesPlan[q].id = in.sql.nodes[j].nodeId
                    /\ in.plan[1].nodesPlan[q].planDescription = BadDescription}}

\* the same call with every description parseable
GoodPlan(in) == PlanWith(in.sql, LAMBDA id : "plan")

\* C17: parseNodePlan never throws outward: when the operator parser of a
\* node fails on its plan text, the type enrichment still returns every node,
\* that node has parsedPlan undefined, and the type, parsed plan and metrics
\* of every sibling node are those of the run in which nothing failed.
C17_ParseFailureIsolated ==
    /\ calcPc = "typed" =>
           /\ Len(calcNodes) = Len(calcIn[1].sql.nodes)
           /\ \A i \in 1..Len(calcNodes) :
                  IF calcNodes[i].nodeId \in FailedIds(calcIn[1])
                  THEN calcNodes[i].parsedPlan = None
                  ELSE FailedIds(calcIn[1]) # {} =>
                           calcNodes[i] =
                               typeEnrichedNodes(calcIn[1].sql, GoodPlan(calcIn[1]),
                                                 calcIn[1].icebergCommit)[i]
    /\ (CalcDone /\ FailedIds(calcIn[1]) # {}) =>
           LET good == calculateSql(calcIn[1].sql, GoodPlan(calcIn[1]),
                                    calcIn[1].icebergCommit, 1)
               out == calcOut[1]
           IN  /\ Len(out.nodes) = Len(good.nodes)
               /\ out.filters = good.filters
               /\ \A k \in 1..Len(out.nodes) :
                      IF out.nodes[k].nodeId \in FailedIds(calcIn[1])
                      THEN out.nodes[k].parsedPlan = None
                      ELSE /\ out.nodes[k].type = good.nodes[k].type
                           /\ out.nodes[k].parsedPlan = good.nodes[k].parsedPlan
                           /\ out.nodes[k].metrics = good.nodes[k].metrics

\* the aggregation's description failed next to a filter that still has its
\* parsed plan and its derived metric
C17_Witness ==
    /\ CalcDone
    /\ FailedIds(calcIn[1]) # {}
    /\ \E k, j \in 1..Len(calcOut[1].nodes) :
           /\ calcOut[1].nodes[k].nodeId \in FailedIds(calcIn[1])
           /\ calcOut[1].nodes[k].nodeName = "HashAggregate"
           /\ calcOut[1].nodes[k].parsedPlan = None
           /\ calcOut[1].nodes[j].nodeName = "Filter"
           /\ calcOut[1].nodes[j].parsedPlan # None
           /\ \E q \in 1..Len(calcOut[1].nodes[j].metrics) :
                  calcOut[1].nodes[j].metrics[q].name = "Rows Filtered"

\* C18: no error condition is fatal to the pipeline: calculateSqlStore
\* returns a store, without raising, for every snapshot batch, whatever
\* nodes, edges, plans and statuses its executions carry, node lists of
\* length zero included.
C18_NeverRaises ==
    last.op = "calculateSqlStore" => ~last.raised

\* the snapshot's node with the id
RawNodeOf(sql, id) == NodeById(sql.nodes, id)[1]

\* the graph calculateSql builds for the metrics
CalcGraph(sql) == generateGraph(sql.edges, NodeIds(sql.nodes))

\* the metrics the pipeline added to the raw metrics of a node
DerivedMetrics(sql, n) ==
    SubSeq(n.metrics, Len(RawNodeOf(sql, n.nodeId).metrics) + 1, Len(n.metrics))

JoinMetricNames == {"join rows increase ratio", "join rows filtered"}

\* the row counts resolved for the two inputs of a join, or None
ResolvedJoinInputs(sql, id) ==
    LET inEdges == {e \in Range(sql.edges) : e[2] = id}
        rows == UpstreamInputRows(GraphInEdges(CalcGraph(sql), id),
                                  CalcGraph(sql), sql.nodes)
    IN  IF Cardinality(inEdges) = 2 /\ Len(rows) = 2
        THEN Some(<<rows[1][1], rows[2][1]>>)
        ELSE None

\* C19: for a node named BroadcastHashJoin, SortMergeJoin or ShuffleHashJoin
\* with exactly two incoming edges whose two input row counts and own output
\* row count are resolved, addJoinMetrics emits exactly one derived metric:
\* "join rows increase ratio" when outputRows / max(inputRows) > 1, otherwise
\* "join rows filtered"; with max(inputRows) = 0 the ratio is 0 and nothing
\* is raised.  With another number of incoming edges or an unresolved row
\* count no join metric is emitted.
C19_JoinMetricBranch ==
    CalcDone =>
        \A k \in 1..Len(calcOut[1].nodes) :
            LET sql == calcIn[1].sql
                n == calcOut[1].nodes[k]
                derived == SelectSeq(DerivedMetrics(sql, n),
                                     LAMBDA m : m.name \in JoinMetricNames)
                ins == ResolvedJoinInputs(sql, n.nodeId)
                own == getRowsFromMetrics(RawNodeOf(sql, n.nodeId).metrics)
            IN  IF n.nodeName \in JoinNames /\ ins # None /\ own # None
                THEN LET maxIn == Max2(ins[1][1], ins[1][2])
                     IN  /\ Len(derived) = 1
                         /\ derived[1].name =
                                IF maxIn # 0 /\ own[1] > maxIn
                                THEN "join rows increase ratio"
                                ELSE "join rows filtered"
                         /\ maxIn = 0 => derived[1].value = 0
                ELSE derived = <<>>

\* inputs of 100 and 200 rows behind projections and 50 output rows:
\* "join rows filtered" = 25.00%
C19_Witness ==
    /\ CalcDone
    /\ \E k \in 1..Len(calcOut[1].nodes) :
           /\ calcOut[1].nodes[k].nodeName \in JoinNames
           /\ ResolvedJoinInputs(calcIn[1].sql, calcOut[1].nodes[k].nodeId)
                  = Some(<<100, 200>>)
           /\ DerivedMetrics(calcIn[1].sql, calcOut[1].nodes[k])
                  = <<Metric("join rows filtered", 2500)>>

\* C20: for a node whose name contains "Filter" or whose display name is
\* "Distinct": when no upstream node with a row count is found or the
\* upstream row count is 0, no "Rows Filtered" metric is emitted; otherwise,
\* when input and output rows are non-negative and input >= output, the
\* emitted percentage is in [0, 100].  Nodes that are neither filter nor
\* distinct nor cross join never receive a "Rows Filtered" metric.
C20_FilterRatioBounds ==
    CalcDone =>
        \A k \in 1..Len(calcOut[1].nodes) :
            LET sql == calcIn[1].sql
                n == calcOut[1].nodes[k]
                rf == SelectSeq(DerivedMetrics(sql, n),
                                LAMBDA m : m.name = "Rows Filtered")
                up == findLastNodeWithInputRows(RawNodeOf(sql, n.nodeId),
                                                CalcGraph(sql), sql.nodes)
                inRows == IF up = None THEN None
                          ELSE getRowsFromMetrics(up[1].metrics)
                own == getRowsFromMetrics(RawNodeOf(sql, n.nodeId).metrics)
            IN  IF n.nodeName \in {"Filter"} \/ n.enrichedName = "Distinct"
                THEN IF inRows = None \/ inRows = Some(0)
                     THEN rf = <<>>
                     ELSE /\ Len(rf) <= 1
                          /\ (/\ Len(rf) = 1
                              /\ own[1] >= 0
                              /\ inRows[1] >= own[1]) =>
                                 (rf[1].value >= 0 /\ rf[1].value <= 10000)
                ELSE n.nodeName \notin {"BroadcastNestedLoopJoin",
                                        "CartesianProduct"} => rf = <<>>

\* a filter of 400 out of the 1000 rows of a scan two hops upstream, 60.00%,
\* in an execution whose other nodes have no such metric
C20_Witness ==
    /\ CalcDone
    /\ \E k \in 2..Len(calcOut[1].nodes) :
           /\ calcOut[1].nodes[k].nodeName = "Filter"
           /\ calcOut[1].nodes[k - 1].nodeName = "Project"
           /\ calcOut[1].nodes[k - 1].metrics = <<>>
           /\ DerivedMetrics(calcIn[1].sql, calcOut[1].nodes[k])
                  = <<Metric("Rows Filtered", 6000)>>

(***************************************************************************)
(* Claims about the stored nodes (checked under Spec)                      *)
(***************************************************************************)
\* the nodes of every stored execution
StoredNodes == UNION {Range(store.sqls[i].nodes) : i \in 1..Len(store.sqls)}

\* the duration metric with the name among the metrics, 0 when absent
DurationOrZero(metrics, name) ==
    IF \E i \in 1..Len(metrics) : metrics[i].name = name
    THEN metrics[MinOf({i \in 1..Len(metrics) : metrics[i].name = name})].value
    ELSE 0

\* C21: in every reachable store a node carries exchangeMetrics iff its name
\* is exactly "Exchange", and then duration = writeDuration + readDuration
\* with writeDuration the shuffle write time and readDuration the sum of the
\* fetch wait, remote requests and remote merged requests durations of the
\* node's current metrics, each 0 when absent.
C21_ExchangeSplit ==
    \A n \in StoredNodes :
        /\ n.exchangeMetrics # None <=> n.nodeName = "Exchange"
        /\ n.nodeName = "Exchange" =>
               /\ n.exchangeMetrics[1].writeDuration
                      = DurationOrZero(n.metrics, "shuffle write time")
               /\ n.exchangeMetrics[1].readDuration
                      = DurationOrZero(n.metrics, "fetch wait time")
                        + DurationOrZero(n.metrics, "remote reqs duration")
                        + DurationOrZero(n.metrics, "remote merged reqs duration")
               /\ n.exchangeMetrics[1].duration
                      = n.exchangeMetrics[1].writeDuration
                        + n.exchangeMetrics[1].readDuration

\* a push has replaced the metrics of an Exchange node whose split was 5 + 3:
\* it is now 8 + 2
C21_Witness ==
    /\ PushedTracked
    /\ \E n \in Range(TargetBefore.nodes) :
           /\ n.nodeName = "Exchange"
           /\ n.nodeId \in PushedIds
           /\ n.exchangeMetrics = Some([writeDuration |-> 5, readDuration |-> 3,
                                        duration |-> 8])
    /\ \E n \in Range(TargetAfter.nodes) :
           /\ n.nodeName = "Exchange"
           /\ n.exchangeMetrics = Some([writeDuration |-> 8, readDuration |-> 2,
                                        duration |-> 10])

\* C27: in every reachable store each node named "BroadcastExchange" has
\* exchangeBroadcastDuration equal to the time to broadcast metric of the
\* node's current metrics (0 when absent), also after a push that changed
\* the node's metrics; nodes with another name have none.
C27_BroadcastDurationCurrent ==
    \A n \in StoredNodes :
        IF n.nodeName = "BroadcastExchange"
        THEN n.exchangeBroadcastDuration
                 = Some(DurationOrZero(n.metrics, "time to broadcast"))
        ELSE n.exchangeBroadcastDuration = None

(***************************************************************************)
(* Further claims about cleanUpDAG (checked under SpecDAG)                 *)
(***************************************************************************)
\* the nodes reached from the set S along the edges E in at most k more hops
RECURSIVE ReachFrom(_, _, _)
ReachFrom(E, S, k) ==
    IF k = 0 THEN S
    ELSE ReachFrom(E, S \cup {e[2] : e \in {x \in E : x[1] \in S}}, k - 1)

\* a path of one or more edges of E from a to b
PathExists(E, a, b) ==
    b \in ReachFrom(E, {e[2] : e \in {x \in E : x[1] = a}}, Cardinality(DagIds))

DagHidden == Range(dagAll) \ dagVisible

\* the node the current iteration of the forEach looks at
DagCurrent == notVisibleNodes(dagAll, dagVisible)[dagIdx]

\* the iteration removes a node that has several outgoing edges
RemovesBranching ==
    /\ dagPc = "loop"
    /\ dagIdx <= Len(notVisibleNodes(dagAll, dagVisible))
    /\ DagCurrent \in dagG.nodes
    /\ Len(GraphOutEdges(dagG, DagCurrent)) >= 2

\* the edges after the removal of DagCurrent: those that do not touch it,
\* and one from each predecessor to the target of its first outgoing edge
RewiredToFirstOnly ==
    LET n == DagCurrent
        first == GraphOutEdges(dagG, n)[1][2]
        preds == {e[1] : e \in Range(GraphInEdges(dagG, n))}
    IN  Range(dagG'.edges)
            = {e \in Range(dagG.edges) \cup {<<p, first>> : p \in preds} :
                   e[1] # n /\ e[2] # n}

\* visible a and b are joined in the input only by paths that use an outgoing
\* edge other than the first of a non-visible node whose first target is
\* visible
OnlyThroughNonFirst(a, b) ==
    \E n \in DagHidden :
        LET outs == GraphOutEdges(DagInput, n)
        IN  /\ Len(outs) >= 2
            /\ outs[1][2] \in dagVisible
            /\ PathExists(Range(DagInput.edges), a, b)
            /\ ~PathExists(Range(DagInput.edges)
                               \ {outs[i] : i \in 2..Len(outs)}, a, b)

\* C22: when a removed non-visible node has several outgoing edges, each of
\* its predecessors is rewired only to the target of the first outgoing edge
\* and no edge to the targets of the other outgoing edges is added; a visible
\* A and a visible B reached only through a non-first outgoing edge are not
\* connected in the result.
C22_FirstTargetOnly ==
    /\ [][RemovesBranching => RewiredToFirstOnly]_vars
    /\ [](dagPc = "done" =>
              \A a \in dagVisible, b \in dagVisible :
                  OnlyThroughNonFirst(a, b) => <<a, b>> \notin Range(dagResult))

\* a -> n, n -> c, n -> b with n not visible: the result joins a to c and not
\* a to b
C22_Witness ==
    /\ dagPc = "done"
    /\ \E a \in dagVisible, b \in dagVisible, c \in dagVisible :
           /\ a # b /\ b # c /\ a # c
           /\ OnlyThroughNonFirst(a, b)
           /\ <<a, c>> \in Range(dagResult)
           /\ <<a, c>> \notin Range(dagEdges)
           /\ <<a, b>> \notin Range(dagResult)

\* b is reached from a by an input edge or by a path of input edges whose
\* intermediate nodes are all non-visible
JoinedThroughHidden(a, b) ==
    LET E == Range(dagEdges)
        hiddenEdges == {e \in E : e[2] \notin dagVisible}
        mids == ReachFrom(hiddenEdges, {e[2] : e \in {x \in hiddenEdges : x[1] = a}},
                          Cardinality(DagIds))
    IN  \E e \in E : e[2] = b /\ e[1] \in {a} \cup mids

\* C23: cleanUpDAG invents no connectivity and loses no direct edge: every
\* returned edge (A, B) corresponds to a path from A to B in the input whose
\* intermediate nodes are all non-visible, every input edge between two
\* visible nodes is in the result, and when all nodes are visible the result
\* is the input edge set.
C23_NoInventedNoLost ==
    dagPc = "done" =>
        /\ \A e \in Range(dagResult) : JoinedThroughHidden(e[1], e[2])
        /\ \A e \in Range(dagEdges) :
               (e[1] \in dagVisible /\ e[2] \in dagVisible) => e \in Range(dagResult)
        /\ dagVisible = DagIds => Range(dagResult) = Range(dagEdges)

\* a result that keeps a direct edge and adds one for a contracted path
C23_Witness ==
    /\ dagPc = "done"
    /\ \E e \in Range(dagResult) : e \in Range(dagEdges)
    /\ \E e \in Range(dagResult) :
           e \notin Range(dagEdges) /\ JoinedThroughHidden(e[1], e[2])

(***************************************************************************)
(* Further claims about the store (checked under Spec)                     *)
(***************************************************************************)
IdsOf(sqls) == {sqls[i].id : i \in 1..Len(sqls)}

\* C24: an execution that has been materialized in the store is never
\* removed from it: after any later snapshot batch (one that omits its id
\* while containing a smaller or a larger id included) and any metric push,
\* the store still holds an execution with that id.
C24_NeverRemoved ==
    last.op # "init" => IdsOf(last.before.sqls) \subseteq IdsOf(store.sqls)

\* C26: in every reachable store each execution's nodes and codegenNodes
\* partition the originating node set: no node id is in both, no codegen
\* wrapper is in nodes, and originalNumOfNodes = nodes.length +
\* codegenNodes.length.
C26_NodesPartition ==
    \A i \in 1..Len(store.sqls) :
        LET e == store.sqls[i]
            graphIds == {e.nodes[k].nodeId : k \in 1..Len(e.nodes)}
            codegenIds == {e.codegenNodes[k].nodeId : k \in 1..Len(e.codegenNodes)}
        IN  /\ graphIds \cap codegenIds = {}
            /\ \A k \in 1..Len(e.nodes) :
                   /\ ~e.nodes[k].isCodegenNode
                   /\ e.nodes[k].nodeName \notin CodegenNames
            /\ \A k \in 1..Len(e.codegenNodes) :
                   e.codegenNodes[k].nodeName \in CodegenNames
            /\ e.originalNumOfNodes = Len(e.nodes) + Len(e.codegenNodes)
            /\ Cardinality(graphIds \cup codegenIds) = e.originalNumOfNodes

\* an execution of four graph nodes and one codegen wrapper after a metric
\* push that reached a graph node and the wrapper
C26_Witness ==
    /\ PushedTracked
    /\ Len(TargetAfter.nodes) = 4
    /\ Len(TargetAfter.codegenNodes) = 1
    /\ TargetAfter.originalNumOfNodes = 5
    /\ TargetAfter.codegenNodes[1].nodeId \in PushedIds
    /\ \E k \in 1..4 : TargetAfter.nodes[k].nodeId \in PushedIds

(***************************************************************************)
(* Claim about the slice (checked under SpecSlice)                         *)
(***************************************************************************)
SlotsReset(s) ==
    s.sql = None /\ s.stages = None /\ s.jobs = None /\ s.executors = None

\* C25: in every state reachable from initialState by the slice actions the
\* data slots are populated in dependency order only: sql defined implies
\* stages and status defined, jobs defined implies stages defined, stages or
\* executors defined implies status and runMetadata defined; before the first
\* setInitial every action except updateConnection leaves the state
\* unchanged, and setInitial resets sql, stages, jobs and executors.
C25_SlotsInDependencyOrder ==
    /\ state.sql # None => (state.stages # None /\ state.status # None)
    /\ state.jobs # None => state.stages # None
    /\ (state.stages # None \/ state.executors # None)
           => (state.status # None /\ state.runMetadata # None)
    /\ (/\ sliceLast.action \notin {"init", "setInitial", "updateConnection"}
        /\ ~sliceLast.before.isInitialized) => state = sliceLast.before
    /\ sliceLast.action = "setInitial" => SlotsReset(state)

\* a second setInitial on a state whose four slots were all populated
C25_Witness ==
    /\ sliceLast.action = "setInitial"
    /\ sliceLast.before.isInitialized
    /\ sliceLast.before.sql # None
    /\ sliceLast.before.jobs # None
    /\ sliceLast.before.stages # None
    /\ sliceLast.before.executors # None
    /\ SlotsReset(state)

====
